---- MODULE Spec2Model ----
(***************************************************************************)
(* A model of PromptPuppet: the pose solver (pose.rs), the skeleton        *)
(* configuration (skeleton.rs), the prompt generator (prompt.rs), the      *)
(* panel renderer's selection logic (ui_panels.rs), the 2D canvas          *)
(* normalisation (ui_canvas.rs) and the application shell (app.rs).        *)
(*                                                                         *)
(* Numbers.  The program computes in f32.  The model computes in fixed     *)
(* point: a coordinate is an integer number of ticks, PosScale ticks to    *)
(* one pose unit, so the solver's 0.001 threshold is one tick; a direction *)
(* (a normalised vector, a cosine) is an integer with UnitScale for 1.0;   *)
(* an angle is an integer number of hundredths of a degree.  Divisions     *)
(* round to nearest.  Statements about lengths are therefore made up to a  *)
(* tolerance of a few ticks, never exactly.                                *)
(***************************************************************************)
EXTENDS Integers, Sequences, FiniteSets, TLC

\* ------------------------------------------------------------ arithmetic

\* ticks per pose unit: 0.001 (pose.rs thresholds) is one tick
PosScale == 1000
\* the integer that stands for 1.0 in a direction vector or a cosine
UnitScale == 10000
\* hundredths of a degree per degree
DegScale == 100

Abs(a) == IF a < 0 THEN -a ELSE a
Min2(a, b) == IF a < b THEN a ELSE b
Max2(a, b) == IF a > b THEN a ELSE b

\* a / b rounded to nearest, b > 0 (f32 division, to the model's resolution)
RDiv(a, b) ==
  IF a >= 0 THEN (2 * a + b) \div (2 * b) ELSE -((2 * (-a) + b) \div (2 * b))

RECURSIVE SqrtIter(_, _)
SqrtIter(n, x) ==
  LET y == (x + n \div x) \div 2
  IN IF y >= x THEN x ELSE SqrtIter(n, y)

\* floor of the square root (f32::sqrt, to the model's resolution)
Isqrt(n) == IF n <= 0 THEN 0 ELSE SqrtIter(n, Min2(n, 46340))

\* f32::clamp
Clamp(v, lo, hi) == IF v < lo THEN lo ELSE IF v > hi THEN hi ELSE v

\* ------------------------------------------------------------ trigonometry

\* sin of 0..90 whole degrees, UnitScale for 1.0 (f32::sin to the model's
\* resolution; entry d + 1 is sin(d degrees))
SinTable ==
  << 
     0, 175, 349, 523, 698, 872, 1045, 1219, 1392, 1564,
     1736, 1908, 2079, 2250, 2419, 2588, 2756, 2924, 3090, 3256,
     3420, 3584, 3746, 3907, 4067, 4226, 4384, 4540, 4695, 4848,
     5000, 5150, 5299, 5446, 5592, 5736, 5878, 6018, 6157, 6293,
     6428, 6561, 6691, 6820, 6947, 7071, 7193, 7314, 7431, 7547,
     7660, 7771, 7880, 7986, 8090, 8192, 8290, 8387, 8480, 8572,
     8660, 8746, 8829, 8910, 8988, 9063, 9135, 9205, 9272, 9336,
     9397, 9455, 9511, 9563, 9613, 9659, 9703, 9744, 9781, 9816,
     9848, 9877, 9903, 9925, 9945, 9962, 9976, 9986, 9994, 9998,
     10000 >>

\* sin of c hundredths of a degree, 0 <= c <= 9000, linear between whole degrees
SinQ(c) ==
  LET d == c \div DegScale
      r == c % DegScale
  IN IF r = 0 THEN SinTable[d + 1]
     ELSE SinTable[d + 1] + RDiv((SinTable[d + 2] - SinTable[d + 1]) * r, DegScale)

\* f32::sin of an angle of c hundredths of a degree, 0 <= c <= 36000
SinC(c) ==
  IF c <= 9000 THEN SinQ(c)
  ELSE IF c <= 18000 THEN SinQ(18000 - c)
  ELSE IF c <= 27000 THEN -SinQ(c - 18000)
  ELSE -SinQ(36000 - c)

\* f32::cos of an angle of c hundredths of a degree, 0 <= c <= 18000
CosC(c) == IF c <= 9000 THEN SinQ(9000 - c) ELSE -SinQ(c - 9000)

RECURSIVE AcosSearch(_, _, _)
\* the least angle in lo..hi whose cosine is <= v (cosine falls from lo to hi)
AcosSearch(v, lo, hi) ==
  IF lo >= hi THEN lo
  ELSE LET mid == (lo + hi) \div 2
       IN IF CosC(mid) <= v THEN AcosSearch(v, lo, mid) ELSE AcosSearch(v, mid + 1, hi)

\* f32::acos(v).to_degrees(), v a cosine in -UnitScale..UnitScale; the result
\* is in hundredths of a degree, 0..18000
AcosDeg(v) == AcosSearch(v, 0, 18000)

\* ------------------------------------------------------------ Vec3

VNew(x, y, z) == <<x, y, z>>
VAdd(a, b) == <<a[1] + b[1], a[2] + b[2], a[3] + b[3]>>
VSub(a, b) == <<a[1] - b[1], a[2] - b[2], a[3] - b[3]>>
\* the raw dot product: the product of the two arguments' scales
VDotRaw(a, b) == a[1] * b[1] + a[2] * b[2] + a[3] * b[3]
\* Vec3::len, in the scale of a
VLen(a) == Isqrt(VDotRaw(a, a))
\* Vec3::distance
VDistance(a, b) == VLen(VSub(a, b))
\* Vec3::scale by the ratio num / den
VScale(a, num, den) == <<RDiv(a[1] * num, den), RDiv(a[2] * num, den), RDiv(a[3] * num, den)>>
\* Vec3::dot of two directions, UnitScale for 1.0
VDot(a, b) == RDiv(VDotRaw(a, b), UnitScale)
\* Vec3::cross of two directions, a direction
VCross(a, b) ==
  << RDiv(a[2] * b[3] - a[3] * b[2], UnitScale),
     RDiv(a[3] * b[1] - a[1] * b[3], UnitScale),
     RDiv(a[1] * b[2] - a[2] * b[1], UnitScale) >>

\* Vec3::norm: a of scale `one` (ticks: PosScale, directions: UnitScale) to a
\* direction; shorter than 0.001 gives (1, 0, 0)
VNorm(a, one) ==
  LET l == VLen(a)
  IN IF l * 1000 < one THEN <<UnitScale, 0, 0>> ELSE VScale(a, UnitScale, l)

\* Vec3::rotate_around_axis: v and axis directions, angle in hundredths of a
\* degree (Rodrigues)
RotateAroundAxis(v, axis, angle) ==
  LET cos == CosC(angle)
      sin == SinC(angle)
      k   == RDiv(VDot(axis, v) * (UnitScale - cos), UnitScale)
  IN VAdd(VAdd(VScale(v, cos, UnitScale), VScale(VCross(axis, v), sin, UnitScale)),
          VScale(axis, k, UnitScale))

\* Vec3::soft_clamp: softness in thousandths (700 for 0.7)
SoftClamp(current, min, max, softness) ==
  IF current >= min /\ current <= max THEN current
  ELSE LET clamped  == Clamp(current, min, max)
           strength == 1000 - Clamp(softness, 0, 1000)
       IN current + RDiv((clamped - current) * strength, 1000)

\* ------------------------------------------------------------ skeleton.rs

\* Skeleton.head_size, in ticks (skeleton.json is configuration: the model
\* fixes one head_size and one set of segment multipliers)
HeadSize == 1000

\* Skeleton.segments: the multipliers of head_size
Segments ==
  [ arm |-> 2, forearm |-> 2, thigh |-> 2, shin |-> 2, neck |-> 1,
    torso_upper |-> 2, torso_lower |-> 1, shoulder_width |-> 2 ]

\* Skeleton::seg: head_size * segment, 0 for an unknown name
Seg(name) == IF name \in DOMAIN Segments THEN HeadSize * Segments[name] ELSE 0

\* default_elbow / default_knee: AngleRange {min: 30, max: 180}, in hundredths
\* of a degree
DefaultElbow == [min |-> 30 * DegScale, max |-> 180 * DegScale]
DefaultKnee == [min |-> 30 * DegScale, max |-> 180 * DegScale]

\* ConstraintDef::hinge: softness 0.7, in thousandths
HingeSoftness == 700

\* ------------------------------------------------------------ pose.rs: solver

\* Pose::constrain_distance: `to` placed at distance len from `from`; `to`
\* itself when the two are closer than 0.001
ConstrainDistance(from, to, len) ==
  LET dv == VSub(to, from)
      d  == VLen(dv)
  IN IF d < 1 THEN to ELSE VAdd(from, VScale(dv, len, d))

\* the closure handed to fabrik_solve_constrained that does nothing (spine)
NoConstraint == [hinge |-> FALSE, min |-> 0, max |-> 0, pole |-> <<0, 0, 0>>]
\* the closure that calls constrain_elbow / constrain_knee
HingeConstraint(limits, pole) ==
  [hinge |-> TRUE, min |-> limits.min, max |-> limits.max, pole |-> pole]

\* constrain_hinge, step 1 (plane steering): 40% of the component of bc_cur
\* out of the plane of ab and the pole is removed
HingeSteerOut(bc_cur, n) ==
  VSub(bc_cur, VScale(n, RDiv(VDot(n, bc_cur) * 40, 100), UnitScale))

HingeSteerNorm(bc_cur, s) ==
  IF VLen(s) * 100 > UnitScale THEN VNorm(s, UnitScale) ELSE bc_cur

HingeSteerIn(bc_cur, plane_n) ==
  IF VLen(plane_n) * 100 > UnitScale
  THEN HingeSteerNorm(bc_cur, HingeSteerOut(bc_cur, VNorm(plane_n, UnitScale)))
  ELSE bc_cur

HingeSteer(ab, bc_cur, pole) == HingeSteerIn(bc_cur, VCross(ab, pole))

\* constrain_hinge, step 2 (hyperextension block): a negative component of
\* bc_steered along the pole is removed
HingeProject(ab, projected) ==
  IF VLen(projected) * 100 > UnitScale THEN VNorm(projected, UnitScale)
  ELSE VScale(ab, -1, 1)

HingeBlockDot(ab, bc_steered, pole, flex_dot) ==
  IF flex_dot < 0
  THEN HingeProject(ab, VSub(bc_steered, VScale(pole, flex_dot, UnitScale)))
  ELSE bc_steered

HingeBlock(ab, bc_steered, pole) ==
  HingeBlockDot(ab, bc_steered, pole, VDot(bc_steered, pole))

\* constrain_hinge, step 3 (angle clamp): the new joint->end direction
HingeFallback(ab, bc_blocked, fb, target_deg) ==
  IF VLen(fb) * 100 > UnitScale
  THEN RotateAroundAxis(ab, VNorm(fb, UnitScale), target_deg)
  ELSE bc_blocked

HingeRotate(ab, bc_blocked, pole, cross, angle_deg, target_deg) ==
  IF VLen(cross) * 1000 < UnitScale
  THEN HingeFallback(ab, bc_blocked, VCross(ab, pole), target_deg)
  ELSE IF Abs(target_deg - angle_deg) > 1
  THEN RotateAroundAxis(ab, VNorm(cross, UnitScale), target_deg)
  ELSE bc_blocked

HingeClampAngle(ab, bc_blocked, pole, min, max, angle_deg) ==
  HingeRotate(ab, bc_blocked, pole, VCross(ab, bc_blocked), angle_deg,
              SoftClamp(angle_deg, min, max, HingeSoftness))

HingeClamp(ab, bc_blocked, pole, min, max) ==
  HingeClampAngle(ab, bc_blocked, pole, min, max,
                  AcosDeg(Clamp(VDot(ab, bc_blocked), -UnitScale, UnitScale)))

\* the three steps in order: from ab and bc_cur to new_bc
HingeDirection(ab, bc_cur, pole, min, max) ==
  HingeClamp(ab, HingeBlock(ab, HingeSteer(ab, bc_cur, pole), pole), pole, min, max)

HingePlace(chain, a, b, c, lower_len, min, max, pole) ==
  IF lower_len < 1 THEN chain
  ELSE [chain EXCEPT ![3] =
          VAdd(b, VScale(HingeDirection(VNorm(VSub(a, b), PosScale),
                                        VNorm(VSub(c, b), PosScale), pole, min, max),
                         lower_len, UnitScale))]

\* Pose::constrain_hinge on chain <<root, joint, end>>
ConstrainHinge(chain, min, max, pole) ==
  IF Len(chain) < 3 THEN chain
  ELSE HingePlace(chain, chain[1], chain[2], chain[3], VDistance(chain[2], chain[3]),
                  min, max, pole)

\* the call constrain(chain) of fabrik_solve_constrained
ApplyConstraint(chain, con) ==
  IF con.hinge THEN ConstrainHinge(chain, con.min, con.max, con.pole) ELSE chain

RECURSIVE ForwardPass(_, _, _)
\* for i in (1..=target_idx).rev(): chain[i-1] = constrain_distance(chain[i], chain[i-1], lengths[i-1])
\* (i is the code's 0-based index; the sequences are 1-based)
ForwardPass(chain, lengths, i) ==
  IF i < 1 THEN chain
  ELSE ForwardPass(
         [chain EXCEPT ![i] = ConstrainDistance(chain[i + 1], chain[i], lengths[i])],
         lengths, i - 1)

RECURSIVE BackwardPass(_, _, _, _)
\* for i in from..to (exclusive): chain[i+1] = constrain_distance(chain[i], chain[i+1], lengths[i])
BackwardPass(chain, lengths, i, to) ==
  IF i >= to THEN chain
  ELSE BackwardPass(
         [chain EXCEPT ![i + 2] = ConstrainDistance(chain[i + 1], chain[i + 2], lengths[i + 1])],
         lengths, i + 1, to)

\* the number of passes of the solver's loop: for _ in 0..6
FabrikIterations == 6

\* one pass of the solver's loop: target set, forward pass, constrain, root
\* reset, backward pass, constrain
FabrikPass(chain, lengths, target, target_idx, con, root_fixed) ==
  ApplyConstraint(
    BackwardPass(
      [ApplyConstraint(
         ForwardPass([chain EXCEPT ![target_idx + 1] = target], lengths, target_idx),
         con) EXCEPT ![1] = root_fixed],
      lengths, 0, target_idx),
    con)

RECURSIVE FabrikLoop(_, _, _, _, _, _, _)
RECURSIVE FabrikCheck(_, _, _, _, _, _, _)
\* the loop of fabrik_solve_constrained, `left` iterations to go
FabrikLoop(chain, lengths, target, target_idx, con, root_fixed, left) ==
  IF left = 0 THEN chain
  ELSE FabrikCheck(FabrikPass(chain, lengths, target, target_idx, con, root_fixed),
                   lengths, target, target_idx, con, root_fixed, left)

\* the convergence check that ends a pass: break when within 0.001 of the target
FabrikCheck(chain, lengths, target, target_idx, con, root_fixed, left) ==
  IF VDistance(chain[target_idx + 1], target) < 1 THEN chain
  ELSE FabrikLoop(chain, lengths, target, target_idx, con, root_fixed, left - 1)

\* Pose::fabrik_solve_constrained
FabrikSolveConstrained(chain, lengths, target, target_idx, con) ==
  IF target_idx = 0
  THEN ApplyConstraint(
         BackwardPass([chain EXCEPT ![1] = target], lengths, 0, Len(chain) - 1), con)
  ELSE ApplyConstraint(
         BackwardPass(
           FabrikLoop(chain, lengths, target, target_idx, con, chain[1], FabrikIterations),
           lengths, target_idx, Len(chain) - 1),
         con)

\* ------------------------------------------------------------ pose.rs: Pose

\* the 14 joints of struct Pose (the names joint_mut accepts)
JointNames ==
  { "head", "neck", "left_shoulder", "right_shoulder", "left_elbow", "right_elbow",
    "left_wrist", "right_wrist", "waist", "crotch", "left_knee", "right_knee",
    "left_ankle", "right_ankle" }

\* Joint::translate
Translate(j, d) == VAdd(j, d)

\* Pose::drag_arm
DragArm(p, side, d) ==
  IF side = "left"
  THEN [p EXCEPT !.left_elbow = Translate(@, d), !.left_wrist = Translate(@, d)]
  ELSE [p EXCEPT !.right_elbow = Translate(@, d), !.right_wrist = Translate(@, d)]

\* Pose::drag_leg
DragLeg(p, side, d) ==
  IF side = "left"
  THEN [p EXCEPT !.left_knee = Translate(@, d), !.left_ankle = Translate(@, d)]
  ELSE [p EXCEPT !.right_knee = Translate(@, d), !.right_ankle = Translate(@, d)]

\* the tail shared by the "neck" arm and move_shoulder: waist and crotch are
\* re-fixed under the neck and both legs follow the crotch
ReconcileSpine(p) ==
  LET old_crotch == p.crotch
      waist  == ConstrainDistance(p.neck, p.waist, Seg("torso_upper"))
      crotch == ConstrainDistance(waist, p.crotch, Seg("torso_lower"))
      cd     == VSub(crotch, old_crotch)
  IN DragLeg(DragLeg([p EXCEPT !.waist = waist, !.crotch = crotch], "left", cd), "right", cd)

\* move_joint_constrained, the "neck" arm
MoveNeck(p, target) ==
  LET delta == VSub(target, p.neck)
      p1 == [p EXCEPT !.head = Translate(@, delta),
                      !.left_shoulder = Translate(@, delta),
                      !.right_shoulder = Translate(@, delta),
                      !.neck = target]
      p2 == DragArm(DragArm(p1, "left", delta), "right", delta)
  IN ReconcileSpine(p2)

\* move_joint_constrained, the "head" arm
MoveHead(p, target) ==
  LET neck_len == Seg("neck")
      clamped_target ==
        IF target[2] > p.neck[2] THEN <<target[1], p.neck[2] - neck_len, target[3]>>
        ELSE target
  IN [p EXCEPT !.head = ConstrainDistance(p.neck, clamped_target, neck_len)]

\* Pose::move_shoulder
MoveShoulder(p, side, target) ==
  LET is_left == side = "left"
      old_active_pos == IF is_left THEN p.left_shoulder ELSE p.right_shoulder
      old_other_pos  == IF is_left THEN p.right_shoulder ELSE p.left_shoulder
      old_neck_pos   == p.neck
      new_active_pos == target
      dist_vec     == VSub(old_other_pos, new_active_pos)
      current_dist == VLen(dist_vec)
      width        == Seg("shoulder_width")
      new_other_pos ==
        IF current_dist > 1
        THEN VAdd(new_active_pos, VScale(dist_vec, width, current_dist))
        ELSE <<new_active_pos[1] + width, new_active_pos[2], new_active_pos[3]>>
      new_neck_pos == << RDiv(new_active_pos[1] + new_other_pos[1], 2),
                         RDiv(new_active_pos[2] + new_other_pos[2], 2),
                         RDiv(new_active_pos[3] + new_other_pos[3], 2) >>
      p1 == IF is_left
            THEN [p EXCEPT !.left_shoulder = new_active_pos, !.right_shoulder = new_other_pos]
            ELSE [p EXCEPT !.right_shoulder = new_active_pos, !.left_shoulder = new_other_pos]
      p2 == [p1 EXCEPT !.neck = new_neck_pos,
                       !.head = Translate(@, VSub(new_neck_pos, old_neck_pos))]
      active_delta == VSub(new_active_pos, old_active_pos)
      other_delta  == VSub(new_other_pos, old_other_pos)
      p3 == DragArm(DragArm(p2, side, active_delta),
                    IF is_left THEN "right" ELSE "left", other_delta)
  IN ReconcileSpine(p3)

\* the elbow poles of fabrik_left_arm / fabrik_right_arm: (-0.3, 0, 1) and
\* (0.3, 0, 1), normalised; the knee pole (0, 0, 1)
PoleL == VNorm(<<-300, 0, 1000>>, PosScale)
PoleR == VNorm(<<300, 0, 1000>>, PosScale)
PoleFwd == <<0, 0, UnitScale>>

\* the write-back of fabrik_left_arm / fabrik_right_arm: elbow and wrist
\* only, the shoulder is not written back
ArmWriteBack(p, side, out) ==
  IF side = "left" THEN [p EXCEPT !.left_elbow = out[2], !.left_wrist = out[3]]
  ELSE [p EXCEPT !.right_elbow = out[2], !.right_wrist = out[3]]

\* Pose::fabrik_left_arm / fabrik_right_arm
FabrikArm(p, side, target, target_idx) ==
  ArmWriteBack(p, side,
    FabrikSolveConstrained(
      IF side = "left" THEN <<p.left_shoulder, p.left_elbow, p.left_wrist>>
      ELSE <<p.right_shoulder, p.right_elbow, p.right_wrist>>,
      <<Seg("arm"), Seg("forearm")>>, target, target_idx,
      HingeConstraint(DefaultElbow, IF side = "left" THEN PoleL ELSE PoleR)))

\* fabrik_torso's target validation: the waist may not rise above
\* neck.y + torso_upper, the crotch not above waist.y + torso_lower
TorsoTarget(p, target, target_idx) ==
  LET min_y == IF target_idx = 1 THEN p.neck[2] + Seg("torso_upper")
               ELSE p.waist[2] + Seg("torso_lower")
  IN IF target_idx \in {1, 2} /\ target[2] < min_y THEN <<target[1], min_y, target[3]>>
     ELSE target

\* the write-back of fabrik_torso: waist and crotch, the neck is not written back
TorsoWriteBack(p, out) == [p EXCEPT !.waist = out[2], !.crotch = out[3]]

\* Pose::fabrik_torso
FabrikTorso(p, target, target_idx) ==
  TorsoWriteBack(p,
    FabrikSolveConstrained(<<p.neck, p.waist, p.crotch>>,
      <<Seg("torso_upper"), Seg("torso_lower")>>,
      TorsoTarget(p, target, target_idx), target_idx, NoConstraint))

\* a write-back that always lands on the left leg
LegWriteBackLeft(p, side, out) ==
  [p EXCEPT !.crotch = out[1], !.left_knee = out[2], !.left_ankle = out[3]]

\* the write-back of fabrik_left_leg / fabrik_right_leg: the crotch too
LegWriteBack(p, side, out) ==
  IF side = "left"
  THEN [p EXCEPT !.crotch = out[1], !.left_knee = out[2], !.left_ankle = out[3]]
  ELSE [p EXCEPT !.crotch = out[1], !.right_knee = out[2], !.right_ankle = out[3]]

\* Pose::fabrik_left_leg / fabrik_right_leg
FabrikLeg(p, side, target, target_idx) ==
  LegWriteBack(p, side,
    FabrikSolveConstrained(
      IF side = "left" THEN <<p.crotch, p.left_knee, p.left_ankle>>
      ELSE <<p.crotch, p.right_knee, p.right_ankle>>,
      <<Seg("thigh"), Seg("shin")>>, target, target_idx,
      HingeConstraint(DefaultKnee, PoleFwd)))

\* both legs follow the crotch from where it was in p to where it is in q
LegsFollowCrotch(p, q) ==
  DragLeg(DragLeg(q, "left", VSub(q.crotch, p.crotch)), "right", VSub(q.crotch, p.crotch))

\* move_joint_constrained, the "waist" and "crotch" arms
MoveTorso(p, target, target_idx) == LegsFollowCrotch(p, FabrikTorso(p, target, target_idx))

\* Pose::move_joint_constrained
MoveJointConstrained(p, name, target) ==
  CASE name = "neck"           -> MoveNeck(p, target)
    [] name = "head"           -> MoveHead(p, target)
    [] name = "left_shoulder"  -> MoveShoulder(p, "left", target)
    [] name = "right_shoulder" -> MoveShoulder(p, "right", target)
    [] name = "left_elbow"     -> FabrikArm(p, "left", target, 1)
    [] name = "left_wrist"     -> FabrikArm(p, "left", target, 2)
    [] name = "right_elbow"    -> FabrikArm(p, "right", target, 1)
    [] name = "right_wrist"    -> FabrikArm(p, "right", target, 2)
    [] name = "waist"          -> MoveTorso(p, target, 1)
    [] name = "crotch"         -> MoveTorso(p, target, 2)
    [] name = "left_knee"      -> FabrikLeg(p, "left", target, 1)
    [] name = "left_ankle"     -> FabrikLeg(p, "left", target, 2)
    [] name = "right_knee"     -> FabrikLeg(p, "right", target, 1)
    [] name = "right_ankle"    -> FabrikLeg(p, "right", target, 2)
    [] OTHER                   -> p

\* ------------------------------------------------------------ ui_canvas.rs

\* The application shell (app.rs, ui_canvas.rs, canvas3d.rs) works on a Pose
\* of twelve joints (one "hips" joint, no neck/waist/crotch) in canvas
\* pixels.  A joint is <<x, y, z>> in ticks, AppScale ticks to one pixel, so
\* the 0.1 threshold of constrain is one tick.  The joints' angle fields, and
\* Pose::update_joint_angle / Pose::clamp_angles that maintain them, are not
\* part of the sources and are not carried.
AppScale == 10

UPPER_ARM == 894
FOREARM == 894
THIGH == 894
SHIN == 800
NECK_LEN == 400
TORSO_UPPER == 1600
\* the 30.0 by which the neck point sits above the higher shoulder
NeckRise == 300
\* the 25.0 pick radius of find_nearest_joint
HitRadius == 250

\* the joints in the order find_nearest_joint lists them
AppJointNames ==
  << "head", "left_shoulder", "right_shoulder", "left_elbow", "right_elbow",
     "left_wrist", "right_wrist", "hips", "left_knee", "right_knee",
     "left_ankle", "right_ankle" >>

Shoulder(side) == IF side = "left" THEN "left_shoulder" ELSE "right_shoulder"
Elbow(side) == IF side = "left" THEN "left_elbow" ELSE "right_elbow"
Wrist(side) == IF side = "left" THEN "left_wrist" ELSE "right_wrist"
Knee(side) == IF side = "left" THEN "left_knee" ELSE "right_knee"
Ankle(side) == IF side = "left" THEN "left_ankle" ELSE "right_ankle"

\* the side of a limb joint
SideOf(name) ==
  IF name \in {"left_shoulder", "left_elbow", "left_wrist", "left_knee", "left_ankle"}
  THEN "left" ELSE "right"

XY(j) == <<j[1], j[2]>>

\* set_xy: x and y are replaced, z is kept
SetXY(j, c) == <<c[1], c[2], j[3]>>

ConstrainAt(from, dx, dy, dist, length) ==
  IF dist < 1
  THEN <<from[1] + length, from[2]>>
  ELSE <<from[1] + RDiv(dx * length, dist), from[2] + RDiv(dy * length, dist)>>

\* constrain(from, to, length): the point at `length` from `from` towards `to`
Constrain(from, to, length) ==
  ConstrainAt(from, to[1] - from[1], to[2] - from[2],
              Isqrt((to[1] - from[1]) * (to[1] - from[1])
                    + (to[2] - from[2]) * (to[2] - from[2])), length)

\* the neck point: above the shoulder midpoint
NeckPoint(p) ==
  << RDiv(p.left_shoulder[1] + p.right_shoulder[1], 2),
     Min2(p.left_shoulder[2], p.right_shoulder[2]) - NeckRise >>

\* the top of the torso: the shoulder midpoint
TorsoTop(p) ==
  << RDiv(p.left_shoulder[1] + p.right_shoulder[1], 2),
     RDiv(p.left_shoulder[2] + p.right_shoulder[2], 2) >>

\* the hip of one leg: below that side's shoulder, at the height of the hips
HipPoint(p, side) == <<p[Shoulder(side)][1], p.hips[2]>>

\* elbow placed at el2, wrist re-fixed to it
ArmFollow(p, side, el2) ==
  [p EXCEPT ![Elbow(side)] = SetXY(@, el2),
            ![Wrist(side)] = SetXY(@, Constrain(el2, XY(p[Wrist(side)]), FOREARM))]

\* knee placed at kn2, ankle re-fixed to it
LegFollow(p, side, kn2) ==
  [p EXCEPT ![Knee(side)] = SetXY(@, kn2),
            ![Ankle(side)] = SetXY(@, Constrain(kn2, XY(p[Ankle(side)]), SHIN))]

\* update_joint_position(pose, joint_name, x, y), c = <<x, y>>
UpdateJointPosition(p, name, c) ==
  CASE name = "head" ->
         [p EXCEPT !.head = SetXY(@, Constrain(NeckPoint(p), c, NECK_LEN))]
    [] name = "hips" ->
         [p EXCEPT !.hips = SetXY(@, Constrain(TorsoTop(p), c, TORSO_UPPER))]
    [] name \in {"left_shoulder", "right_shoulder"} ->
         ArmFollow([p EXCEPT ![name] = SetXY(@, c)], SideOf(name),
                   Constrain(c, XY(p[Elbow(SideOf(name))]), UPPER_ARM))
    [] name \in {"left_elbow", "right_elbow"} ->
         ArmFollow(p, SideOf(name),
                   Constrain(XY(p[Shoulder(SideOf(name))]), c, UPPER_ARM))
    [] name \in {"left_wrist", "right_wrist"} ->
         [p EXCEPT ![name] = SetXY(@, Constrain(XY(p[Elbow(SideOf(name))]), c, FOREARM))]
    [] name \in {"left_knee", "right_knee"} ->
         LegFollow(p, SideOf(name), Constrain(HipPoint(p, SideOf(name)), c, THIGH))
    [] name \in {"left_ankle", "right_ankle"} ->
         [p EXCEPT ![name] = SetXY(@, Constrain(XY(p[Knee(SideOf(name))]), c, SHIN))]
    [] OTHER -> p

NormHead(p) == [p EXCEPT !.head = SetXY(@, Constrain(NeckPoint(p), XY(p.head), NECK_LEN))]
NormHips(p) == [p EXCEPT !.hips = SetXY(@, Constrain(TorsoTop(p), XY(p.hips), TORSO_UPPER))]
NormArm(p, side) ==
  ArmFollow(p, side, Constrain(XY(p[Shoulder(side)]), XY(p[Elbow(side)]), UPPER_ARM))
NormLeg(p, side) ==
  LegFollow(p, side, Constrain(HipPoint(p, side), XY(p[Knee(side)]), THIGH))

\* normalize_pose: head, hips, both arms, both legs are re-fixed, in that order
NormalizePose(p) ==
  NormLeg(NormLeg(NormArm(NormArm(NormHips(NormHead(p)), "left"), "right"), "left"), "right")

JointDistSq(p, name, c) ==
  (p[name][1] - c[1]) * (p[name][1] - c[1]) + (p[name][2] - c[2]) * (p[name][2] - c[2])

\* the first joint of least distance among the joints hit (Iterator::min_by)
NearestIn(p, c, hits) ==
  IF hits = <<>> THEN <<>>
  ELSE << hits[CHOOSE i \in 1..Len(hits) :
                 \A j \in 1..Len(hits) :
                   /\ j < i => JointDistSq(p, hits[j], c) > JointDistSq(p, hits[i], c)
                   /\ j >= i => JointDistSq(p, hits[j], c) >= JointDistSq(p, hits[i], c)] >>

HitBy(p, c, name) == JointDistSq(p, name, c) < HitRadius * HitRadius

\* find_nearest_joint(pose, x, y): <<>> for None, <<name>> for Some(name)
FindNearestJoint(p, c) == NearestIn(p, c, SelectSeq(AppJointNames, LAMBDA n : HitBy(p, c, n)))

\* ------------------------------------------------------------ canvas3d.rs

Constrain3dAt(from, d, dist, length) ==
  IF dist < 1
  THEN <<from[1] + length, from[2], from[3]>>
  ELSE << from[1] + RDiv(d[1] * length, dist), from[2] + RDiv(d[2] * length, dist),
          from[3] + RDiv(d[3] * length, dist) >>

\* the constrain_3d closure of update_joint_3d
Constrain3d(from, to, length) == Constrain3dAt(from, VSub(to, from), VLen(VSub(to, from)), length)

NeckPoint3d(p) ==
  << RDiv(p.left_shoulder[1] + p.right_shoulder[1], 2),
     Min2(p.left_shoulder[2], p.right_shoulder[2]) - NeckRise,
     RDiv(p.left_shoulder[3] + p.right_shoulder[3], 2) >>

TorsoTop3d(p) ==
  << RDiv(p.left_shoulder[1] + p.right_shoulder[1], 2),
     RDiv(p.left_shoulder[2] + p.right_shoulder[2], 2),
     RDiv(p.left_shoulder[3] + p.right_shoulder[3], 2) >>

HipPoint3d(p, side) == <<p[Shoulder(side)][1], p.hips[2], p.hips[3]>>

ArmFollow3d(p, side, el2) ==
  [p EXCEPT ![Elbow(side)] = el2,
            ![Wrist(side)] = Constrain3d(el2, p[Wrist(side)], FOREARM)]

LegFollow3d(p, side, kn2) ==
  [p EXCEPT ![Knee(side)] = kn2,
            ![Ankle(side)] = Constrain3d(kn2, p[Ankle(side)], SHIN)]

\* update_joint_3d, from the point where target_canvas has been unprojected
UpdateJoint3d(p, name, t) ==
  CASE name = "head" -> [p EXCEPT !.head = Constrain3d(NeckPoint3d(p), t, NECK_LEN)]
    [] name = "hips" -> [p EXCEPT !.hips = Constrain3d(TorsoTop3d(p), t, TORSO_UPPER)]
    [] name \in {"left_shoulder", "right_shoulder"} ->
         ArmFollow3d([p EXCEPT ![name] = t], SideOf(name),
                     Constrain3d(t, p[Elbow(SideOf(name))], UPPER_ARM))
    [] name \in {"left_elbow", "right_elbow"} ->
         ArmFollow3d(p, SideOf(name), Constrain3d(p[Shoulder(SideOf(name))], t, UPPER_ARM))
    [] name \in {"left_wrist", "right_wrist"} ->
         [p EXCEPT ![name] = Constrain3d(p[Elbow(SideOf(name))], t, FOREARM)]
    [] name \in {"left_knee", "right_knee"} ->
         LegFollow3d(p, SideOf(name), Constrain3d(HipPoint3d(p, SideOf(name)), t, THIGH))
    [] name \in {"left_ankle", "right_ankle"} ->
         [p EXCEPT ![name] = Constrain3d(p[Knee(SideOf(name))], t, SHIN)]
    [] OTHER -> p

\* ------------------------------------------------------------ strings

\* A String that the code tests or slices is a sequence of tokens whose concatenation is the
\* string: words, " " between them, and the punctuation the code writes.
\* Every prefix the code tests with starts_with ends on a token boundary
\* ("forward-outward" is "forward" then "-outward"), so that starts_with and
\* slicing on tokens agree with the code's on bytes.
RECURSIVE Words(_)
\* the string made of the given words with one space between them
Words(ws) ==
  IF ws = <<>> THEN <<>>
  ELSE IF Len(ws) = 1 THEN <<ws[1]>>
  ELSE <<ws[1], " ">> \o Words(Tail(ws))

RECURSIVE Flat(_)
\* the string a sequence of tokens stands for
Flat(text) == IF text = <<>> THEN "" ELSE text[1] \o Flat(Tail(text))

\* str::starts_with
StartsWith(text, prefix) ==
  Len(prefix) <= Len(text) /\ SubSeq(text, 1, Len(prefix)) = prefix

RECURSIVE TrimStart(_)
TrimStart(text) ==
  IF text # <<>> /\ text[1] = " " THEN TrimStart(Tail(text)) ELSE text

RECURSIVE TrimEnd(_)
TrimEnd(text) ==
  IF text # <<>> /\ text[Len(text)] = " " THEN TrimEnd(SubSeq(text, 1, Len(text) - 1))
  ELSE text

\* a trim that keeps the text as it is
KeepText(text) == text

\* str::trim
Trim(text) == TrimEnd(TrimStart(text))

RECURSIVE JoinText(_, _)
\* [String]::join on token strings
JoinText(parts, sep) ==
  IF parts = <<>> THEN <<>>
  ELSE IF Len(parts) = 1 THEN parts[1]
  ELSE parts[1] \o sep \o JoinText(Tail(parts), sep)

\* the word occurs in the string
HasWord(text, word) == \E i \in 1..Len(text) : text[i] = word

\* ------------------------------------------------------------ configuration

\* The JSON assets (ui_config.json and the libraries it names) are inputs of
\* the program.  The model fixes one configuration with a panel of every type
\* the prompt generator handles and a selection key of every multiplicity
\* policy the panels can reach.

\* str::trim_end_matches(".json") on the data sources the configuration names
TrimJson(s) ==
  CASE s = "character_attributes.json" -> "character_attributes"
    [] s = "motion.json" -> "motion"
    [] s = "poses.json" -> "poses"
    [] s = "styles.json" -> "styles"
    [] s = "expressions.json" -> "expressions"
    [] OTHER -> s

\* UiConfig.panels
UiPanels ==
  << [ panel_type |-> "options_grid", data_source |-> "character_attributes.json",
       components |-> <<>> ],
     [ panel_type |-> "controls", data_source |-> "motion.json", components |-> <<>> ],
     [ panel_type |-> "preset_selector", data_source |-> "poses.json",
       components |-> <<>> ],
     [ panel_type |-> "composite", data_source |-> "",
       components |->
         << [ component_type |-> "dropdown", data_source |-> "styles.json" ],
            [ component_type |-> "searchable_dropdown",
              data_source |-> "expressions.json" ] >> ],
     [ panel_type |-> "sequence", data_source |-> "", components |-> <<>> ] >>

\* Option<T>: <<>> is None, <<v>> is Some(v)
None == <<>>
Some(v) == <<v>>

\* PromptPuppetApp.libraries (OptionsLibrary by key).  The composite panel's
\* components name preset libraries, which do not parse as an OptionsLibrary
\* (no "categories"), so Default registers no library for them.
Libraries ==
  [ character_attributes |->
      [ include_prompt |-> "always",
        categories |->
          << [ id |-> "outfit", group |-> Some("Wardrobe"), default |-> "None",
               options |-> <<"None", "red coat">> ],
             [ id |-> "hat", group |-> Some("Accessories"), default |-> "None",
               options |-> <<"None", "straw hat">> ],
             [ id |-> "age", group |-> Some("Basic Info"), default |-> "adult",
               options |-> <<"adult", "elderly">> ],
             [ id |-> "build", group |-> None, default |-> "",
               options |-> <<"", "tall">> ] >> ] ]

\* serde_json::Value as far as the settings use it: a number (in tenths) or
\* a string
Num(n) == [kind |-> "num", num |-> n, str |-> ""]
Str(s) == [kind |-> "str", num |-> 0, str |-> s]

\* PromptPuppetApp.settings_meta (SettingsLibrary by key); `values` lists the
\* slider positions, respectively the dropdown options, a user can pick
SettingsMeta ==
  [ motion |->
      [ include_prompt |-> "video",
        settings |->
          << [ id |-> "speed", label |-> "Speed", setting_type |-> "slider",
               default |-> Num(10), values |-> <<Num(10), Num(25)>> ],
             [ id |-> "camera", label |-> "Camera", setting_type |-> "dropdown",
               default |-> Str("None"), values |-> <<Str("None"), Str("pan")>> ] >> ] ]

\* the stick figure of the "standing" preset, every bone at its canvas length
StandingFigure ==
  [ head |-> <<4000, 800, 0>>,
    left_shoulder |-> <<3500, 1500, 0>>, right_shoulder |-> <<4500, 1500, 0>>,
    left_elbow |-> <<3500, 2394, 0>>, right_elbow |-> <<4500, 2394, 0>>,
    left_wrist |-> <<3500, 3288, 0>>, right_wrist |-> <<4500, 3288, 0>>,
    hips |-> <<4000, 3100, 0>>,
    left_knee |-> <<3500, 3994, 0>>, right_knee |-> <<4500, 3994, 0>>,
    left_ankle |-> <<3500, 4794, 0>>, right_ankle |-> <<4500, 4794, 0>> ]

\* the stick figure of the "wave" preset: the right arm raised
WaveFigure ==
  [StandingFigure EXCEPT !.right_elbow = <<5394, 1500, 0>>,
                         !.right_wrist = <<5394, 606, 0>>]

\* PromptPuppetApp.preset_items as load_preset_library builds them: every
\* decoded pose is passed through normalize_pose; a key containing "style"
\* gets its items from the styles list plus a trailing "Custom" item
PresetItems ==
  [ poses |->
      << [ id |-> "standing", name |-> "Standing",
           pose_data |-> Some(NormalizePose(StandingFigure)),
           prompt |-> Some("standing upright"), allow_custom |-> FALSE ],
         [ id |-> "wave", name |-> "Wave",
           pose_data |-> Some(NormalizePose(WaveFigure)),
           prompt |-> Some("waving hello"), allow_custom |-> FALSE ],
         [ id |-> "portrait", name |-> "Portrait", pose_data |-> None,
           prompt |-> Some("close-up portrait"), allow_custom |-> FALSE ] >>,
    styles |->
      << [ id |-> "photo", name |-> "Photo", pose_data |-> None,
           prompt |-> Some("photorealistic"), allow_custom |-> FALSE ],
         [ id |-> "Custom", name |-> "Custom", pose_data |-> None,
           prompt |-> None, allow_custom |-> TRUE ] >>,
    expressions |->
      << [ id |-> "smile", name |-> "Smile", pose_data |-> None,
           prompt |-> Some("smiling"), allow_custom |-> FALSE ],
         [ id |-> "wink", name |-> "Wink", pose_data |-> None,
           prompt |-> Some("winking"), allow_custom |-> FALSE ] >> ]

\* PromptPuppetApp.preset_metadata; load_preset_library always stores
\* allow_custom: None
PresetMetadata ==
  [ poses |-> [ multiple_selection |-> Some("video"), allow_custom |-> None,
                include_prompt |-> "always" ],
    styles |-> [ multiple_selection |-> None, allow_custom |-> None,
                 include_prompt |-> "always" ],
    expressions |-> [ multiple_selection |-> Some("image"), allow_custom |-> None,
                      include_prompt |-> "always" ] ]

\* the "default" id each preset library declares
LibraryDefault == [ poses |-> "standing", styles |-> "photo", expressions |-> "smile" ]

\* map.get(key): None when the key is absent
Get(map, key) == IF key \in DOMAIN map THEN Some(map[key]) ELSE None

\* items.iter().find(|i| i.id == id)
FindItem(items, id) ==
  IF \E i \in 1..Len(items) : items[i].id = id
  THEN Some(items[CHOOSE i \in 1..Len(items) :
                    items[i].id = id /\ \A j \in 1..(i - 1) : items[j].id # id])
  ELSE None

\* ------------------------------------------------------------ prompt.rs

\* PromptGenerator::skip
Skip(v) == v = "" \/ v = "None"

\* a gate that lets every panel through
IncludeAlways(s, video_mode) == TRUE

\* PromptGenerator::include
Include(s, video_mode) ==
  CASE s = "video" -> video_mode
    [] s = "image" -> ~video_mode
    [] OTHER -> TRUE

\* [String]::join
RECURSIVE Join(_, _)
Join(parts, sep) ==
  IF parts = <<>> THEN ""
  ELSE IF Len(parts) = 1 THEN parts[1]
  ELSE parts[1] \o sep \o Join(Tail(parts), sep)

\* PromptGenerator::emit
Emit(out, parts) == IF parts = <<>> THEN out ELSE out \o Join(parts, ", ") \o "\n\n"

\* format!("{:.1}", f) of a non-negative number of tenths
Fmt1(n) == ToString(n \div 10) \o "." \o ToString(n % 10)

\* PromptGenerator::val_str
ValStr(v) ==
  IF v.kind = "num" THEN Some(Fmt1(v.num))
  ELSE IF v.kind = "str" THEN Some(v.str)
  ELSE None

\* semantics::describe as the generator uses it: a phrase that is a function
\* of the pose alone and is never empty (describe always pushes the stance).
\* The phrase is kept symbolic: it spells out the pose it was computed from.
Describe(p) == "describe" \o ToString(p)

\* the prompt of a found item, nothing for a missing item or a missing prompt
ItemPrompt(found) == IF found = None THEN <<>> ELSE found[1].prompt

RECURSIVE PromptsOf(_, _)
PromptsOf(ids, items) ==
  IF ids = <<>> THEN <<>>
  ELSE ItemPrompt(FindItem(items, Head(ids))) \o PromptsOf(Tail(ids), items)

\* the stored prompts of the selected items, whatever the flag
StoredPrompts(st, manual, key) ==
  IF key \notin DOMAIN st.selections THEN <<>>
  ELSE IF key \notin DOMAIN PresetItems THEN <<>>
  ELSE PromptsOf(st.selections[key].selected, PresetItems[key])

\* PromptGenerator::selected_prompts
SelectedPrompts(st, manual, key) ==
  IF key = "poses" /\ manual
  THEN (IF Describe(st.pose) = "" THEN <<>> ELSE <<Describe(st.pose)>>)
  ELSE IF key \notin DOMAIN st.selections THEN <<>>
  ELSE IF key \notin DOMAIN PresetItems THEN <<>>
  ELSE PromptsOf(st.selections[key].selected, PresetItems[key])

\* OptionsData::get
OptGet(data, id) == IF id \in DOMAIN data THEN data[id] ELSE ""

\* the values pushed under group g, in category order
RECURSIVE GroupValues(_, _, _)
GroupValues(cats, data, g) ==
  IF cats = <<>> THEN <<>>
  ELSE (IF Head(cats).group = g /\ ~Skip(OptGet(data, Head(cats).id))
        THEN <<OptGet(data, Head(cats).id)>> ELSE <<>>)
       \o GroupValues(Tail(cats), data, g)

\* the keys of the `groups` map
GroupKeys(cats, data) ==
  { cats[i].group : i \in { j \in 1..Len(cats) : ~Skip(OptGet(data, cats[j].id)) } }

\* the four names in str::cmp order
SortedOrder == <<"Basic Info", "Body Details", "Facial Features", "Physical Features">>

ORDER == <<"Basic Info", "Physical Features", "Facial Features", "Body Details">>

\* the keys left in `groups` once None and the ORDER groups are removed
RemainingKeys(cats, data) ==
  GroupKeys(cats, data) \ ({None} \cup { Some(ORDER[i]) : i \in 1..Len(ORDER) })

\* str::cmp on the group names in play, ascending
GroupNamesAscending ==
  << "Accessories", "Basic Info", "Body Details", "Facial Features",
     "Physical Features", "Wardrobe" >>

StrRank(s) == CHOOSE i \in 1..Len(GroupNamesAscending) : GroupNamesAscending[i] = s

\* Option<String>::cmp: None first, then by name
KeyLess(a, b) ==
  IF a = None THEN b # None
  ELSE IF b = None THEN FALSE
  ELSE StrRank(a[1]) < StrRank(b[1])

\* k placed after every element not greater than it (a stable insertion)
RECURSIVE InsertByKey(_, _)
InsertByKey(sorted, k) ==
  IF sorted = <<>> THEN <<k>>
  ELSE IF KeyLess(k, Head(sorted)) THEN <<k>> \o sorted
  ELSE <<Head(sorted)>> \o InsertByKey(Tail(sorted), k)

RECURSIVE SortFrom(_, _)
SortFrom(sorted, rest) ==
  IF rest = <<>> THEN sorted ELSE SortFrom(InsertByKey(sorted, Head(rest)), Tail(rest))

\* the keys left in the order the map yields them
KeepOrder(keys) == keys

\* remaining.sort_by_key(|(k, _)| k.clone())
SortByKey(keys) == SortFrom(<<>>, keys)

RECURSIVE ConcatGroups(_, _, _)
ConcatGroups(keys, cats, data) ==
  IF keys = <<>> THEN <<>>
  ELSE GroupValues(cats, data, Head(keys)) \o ConcatGroups(Tail(keys), cats, data)

\* groups.into_iter().collect(): the remaining keys in the order the hash map
\* yields them; `iter` is the map's iteration order over all possible keys
IntoIter(cats, data, iter) == SelectSeq(iter, LAMBDA k : k \in RemainingKeys(cats, data))

\* `all` of the options_grid arm
OptionsAll(cats, data, iter) ==
  GroupValues(cats, data, None)
  \o ConcatGroups([i \in 1..Len(ORDER) |-> Some(ORDER[i])], cats, data)
  \o ConcatGroups(SortByKey(IntoIter(cats, data, iter)), cats, data)

\* the options_grid arm, given what libraries.get(key) and
\* state.options.get(key) return
OptionsArm(out, lib, data, video_mode, iter) ==
  IF lib = None THEN out
  ELSE IF ~Include(lib[1].include_prompt, video_mode) THEN out
  ELSE IF data = None THEN out
  ELSE Emit(out, OptionsAll(lib[1].categories, data[1], iter))

\* the options_grid arm
GenOptions(out, key, st, iter) ==
  OptionsArm(out, Get(Libraries, key), Get(st.options, key), st.video_mode, iter)

\* the display text of a setting value, None when absent or not printable
SettingDisp(found) == IF found = None THEN None ELSE ValStr(found[1])

PairOf(s, disp) ==
  IF disp = None \/ Skip(disp[1]) THEN <<>> ELSE <<s.label \o ": " \o disp[1]>>

RECURSIVE SettingPairs(_, _)
SettingPairs(settings, values) ==
  IF settings = <<>> THEN <<>>
  ELSE PairOf(Head(settings), SettingDisp(Get(values, Head(settings).id)))
       \o SettingPairs(Tail(settings), values)

LineOf(disp) == IF disp = None \/ Skip(disp[1]) THEN "" ELSE disp[1] \o "\n"

RECURSIVE SettingLines(_, _, _)
SettingLines(out, settings, values) ==
  IF settings = <<>> THEN out
  ELSE SettingLines(out \o LineOf(SettingDisp(Get(values, Head(settings).id))),
                    Tail(settings), values)

\* the controls arm, given what settings_meta.get(key) and
\* state.settings.get(key) return
ControlsArm(out, key, lib, data, video_mode) ==
  IF lib = None THEN out
  ELSE IF ~Include(lib[1].include_prompt, video_mode) THEN out
  ELSE IF data = None THEN out
  ELSE IF key \in {"global", "motion"}
       THEN Emit(out, SettingPairs(lib[1].settings, data[1]))
       ELSE SettingLines(out, lib[1].settings, data[1])

\* the controls arm
GenControls(out, key, st) ==
  ControlsArm(out, key, Get(SettingsMeta, key), Get(st.settings, key), st.video_mode)

\* the preset_selector arm, given what preset_metadata.get(key) and
\* selected_prompts(key) return
PresetArm(out, meta, prompts, video_mode) ==
  IF meta = None THEN out
  ELSE IF ~Include(meta[1].include_prompt, video_mode) THEN out
  ELSE Emit(out, prompts)

\* the preset_selector arm
GenPreset(out, key, st, manual) ==
  PresetArm(out, Get(PresetMetadata, key), SelectedPrompts(st, manual, key), st.video_mode)

\* one component of the composite arm, given what libraries.get(ckey) and
\* selected_prompts(ckey) return
ComponentArm(out, lib, prompts, video_mode) ==
  IF lib = None \/ Include(lib[1].include_prompt, video_mode)
  THEN Emit(out, prompts)
  ELSE out

GenComponent(out, ckey, st, manual) ==
  ComponentArm(out, Get(Libraries, ckey), SelectedPrompts(st, manual, ckey), st.video_mode)

\* the composite arm
RECURSIVE GenComponents(_, _, _, _)
GenComponents(out, comps, st, manual) ==
  IF comps = <<>> THEN out
  ELSE GenComponents(GenComponent(out, TrimJson(Head(comps).data_source), st, manual),
                     Tail(comps), st, manual)

GenPanel(out, panel, st, manual, iter) ==
  CASE panel.panel_type = "options_grid" ->
         GenOptions(out, TrimJson(panel.data_source), st, iter)
    [] panel.panel_type = "controls" -> GenControls(out, TrimJson(panel.data_source), st)
    [] panel.panel_type = "preset_selector" ->
         GenPreset(out, TrimJson(panel.data_source), st, manual)
    [] panel.panel_type = "composite" ->
         GenComponents(out, panel.components, st, manual)
    [] OTHER -> out

RECURSIVE GenPanels(_, _, _, _, _)
GenPanels(out, panels, st, manual, iter) ==
  IF panels = <<>> THEN out
  ELSE GenPanels(GenPanel(out, Head(panels), st, manual, iter),
                 Tail(panels), st, manual, iter)

\* PromptGenerator::generate
Generate(st, manual, iter) == GenPanels("", UiPanels, st, manual, iter)

\* ------------------------------------------------------------ ui_panels.rs

\* the multi_mode of handle_selection, render_preset_selector and
\* clear_invalid_multiselections: "never" without metadata or policy
MultiMode(meta) ==
  IF meta = None THEN "never"
  ELSE IF meta[1].multiple_selection = None THEN "never"
  ELSE meta[1].multiple_selection[1]

\* the allow_multi match on multi_mode
AllowMulti(meta, video_mode) ==
  CASE MultiMode(meta) = "always" -> TRUE
    [] MultiMode(meta) = "video" -> video_mode
    [] MultiMode(meta) = "image" -> ~video_mode
    [] OTHER -> FALSE

\* SelectionState::default()
EmptySelection == [selected |-> <<>>, sequence |-> <<>>]

\* selections.entry(key).or_default(): the map with the key present
Entry(sels, key) ==
  IF key \in DOMAIN sels THEN sels
  ELSE [k \in DOMAIN sels \cup {key} |-> IF k = key THEN EmptySelection ELSE sels[k]]

\* Vec::retain(|i| i != id)
Retain(ids, id) == SelectSeq(ids, LAMBDA i : i # id)

Contains(ids, id) == \E i \in 1..Len(ids) : ids[i] = id

\* the pose data of the item with this id, None without item or data
PoseDataOf(found) == IF found = None THEN None ELSE found[1].pose_data

\* a selection that leaves the pose alone
KeepPose(st, id, items) == st

\* update_state_from_selection
UpdateStateFromSelection(st, id, items) ==
  IF PoseDataOf(FindItem(items, id)) = None THEN st
  ELSE [st EXCEPT !.pose = PoseDataOf(FindItem(items, id))[1]]

\* a toggle that puts an absent id in front
ToggleFront(ids, id) == IF Contains(ids, id) THEN Retain(ids, id) ELSE <<id>> \o ids

\* the membership toggle of multi mode
ToggleSelected(ids, id) == IF Contains(ids, id) THEN Retain(ids, id) ELSE Append(ids, id)

\* handle_selection, its effect on the AppState
HandleSelection(st, key, id, items, meta) ==
  IF AllowMulti(meta, st.video_mode)
  THEN [st EXCEPT !.selections =
          [Entry(@, key) EXCEPT ![key].selected = ToggleSelected(@, id)]]
  ELSE UpdateStateFromSelection(
         [st EXCEPT !.selections = [Entry(@, key) EXCEPT ![key].selected = <<id>>]],
         id, items)

\* render_simple_dropdown when an item is chosen: `changed` is raised only if
\* the choice differs from the current selection
DropdownChanged(st, key, id) == Entry(st.selections, key)[key].selected # <<id>>

DropdownSelect(st, key, id, items) ==
  IF DropdownChanged(st, key, id)
  THEN UpdateStateFromSelection(
         [st EXCEPT !.selections = [Entry(@, key) EXCEPT ![key].selected = <<id>>]],
         id, items)
  ELSE [st EXCEPT !.selections = Entry(@, key)]

\* the chip's remove button of render_preset_selector
ChipRemoved(st, key, id) == [st EXCEPT !.selections[key].selected = Retain(@, id)]

\* ------------------------------------------------------------ app.rs

\* OptionsData::from_library
OptionsFromLibrary(lib) ==
  [ id \in { lib.categories[i].id : i \in 1..Len(lib.categories) } |->
      lib.categories[CHOOSE i \in 1..Len(lib.categories) : lib.categories[i].id = id].default ]

\* Settings::from_library
SettingsFromLibrary(lib) ==
  [ id \in { lib.settings[i].id : i \in 1..Len(lib.settings) } |->
      lib.settings[CHOOSE i \in 1..Len(lib.settings) : lib.settings[i].id = id].default ]

\* default selections that are queued in the sequence as well
QueuedDefaults ==
  [ k \in DOMAIN LibraryDefault |->
      [selected |-> <<LibraryDefault[k]>>, sequence |-> <<LibraryDefault[k]>>] ]

\* the selections load_preset_library inserts: the library's default id
DefaultSelections ==
  [ k \in DOMAIN LibraryDefault |-> [selected |-> <<LibraryDefault[k]>>, sequence |-> <<>>] ]

\* default_pose of Default::default(): the pose of the first selected item
\* that carries one (only "poses" items do), passed through normalize_pose
DefaultPose ==
  NormalizePose(PoseDataOf(FindItem(PresetItems.poses, LibraryDefault.poses))[1])

\* the AppState Default::default() builds
DefaultState ==
  [ options |-> [k \in DOMAIN Libraries |-> OptionsFromLibrary(Libraries[k])],
    settings |-> [k \in DOMAIN SettingsMeta |-> SettingsFromLibrary(SettingsMeta[k])],
    pose |-> DefaultPose,
    video_mode |-> FALSE,
    selections |-> DefaultSelections,
    custom_data |-> <<>> ]

\* a reset that puts the whole AppState back to its startup value
ResetAll(st, dflt) == [DefaultState EXCEPT !.pose = dflt]

\* reset_pose_to_default, its effect on the AppState
ResetPoseToDefault(st, dflt) == [st EXCEPT !.pose = dflt]

\* the selection reduced to its last id
ClearOneLast(sel) == [sel EXCEPT !.selected = <<sel.selected[Len(sel.selected)]>>]

\* the selection reduced to its first id
ClearOne(sel) == [sel EXCEPT !.selected = <<sel.selected[1]>>]

\* the keys clear_invalid_multiselections collects in to_reset
ToReset(st) ==
  { k \in DOMAIN st.selections :
      /\ Len(st.selections[k].selected) > 1
      /\ k \in DOMAIN PresetMetadata
      /\ ~AllowMulti(Some(PresetMetadata[k]), st.video_mode) }

\* clear_invalid_multiselections
ClearInvalidMultiselections(st) ==
  [st EXCEPT !.selections =
     [k \in DOMAIN @ |-> IF k \in ToReset(st) THEN ClearOne(@[k]) ELSE @[k]]]

\* the flag flips and the selections stay as they are
VideoModeFlipped(st) == [st EXCEPT !.video_mode = ~@]

\* the Video Mode checkbox: the flag flips, then the selections are re-validated
VideoModeToggled(st) == ClearInvalidMultiselections([st EXCEPT !.video_mode = ~@])

\* do_load, its effect on the AppState
Loaded(saved) == [saved.state EXCEPT !.pose = NormalizePose(@)]

\* a removal that always takes the first entry
RemoveFront(s, idx) == Tail(s)

\* Vec::remove(idx)
Remove(s, idx) == [i \in 1..(Len(s) - 1) |-> IF i < idx THEN s[i] ELSE s[i + 1]]

\* the digest update() compares: DefaultHasher over format!("{:?}", state).
\* The digest is taken to be collision-free and is identified with the text
\* hashed; the initial state_hash (0) is the empty text, which no state prints.
StateHash(st) == ToString(st)

\* a comparison that never reports a change
HashNever(h, old) == FALSE

\* `h != self.state_hash`
HashDiffers(h, old) == h # old

\* ------------------------------------------------------------ state

VARIABLES
  pose,        \* the Pose driven by move_joint_constrained
  moves,       \* number of move_joint_constrained calls made so far
  lastJoint,   \* joint name passed to the latest call ("" before the first)
  lastTarget,  \* target passed to the latest call
  chain,       \* the 3-joint chain handed to fabrik_solve_constrained
  lengths,     \* its two segment lengths
  target,      \* the target of the end joint
  con,         \* the constraint closure passed with it
  chain0,      \* the chain as it was before the latest solve
  solves       \* number of fabrik_solve_constrained calls made so far

posevars == <<pose, moves, lastJoint, lastTarget>>
fabvars == <<chain, lengths, target, con, chain0, solves>>

\* ------------------------------------------------------------ application state

VARIABLES
  state,              \* PromptPuppetApp.state, the AppState
  default_pose,       \* the pose computed at startup
  pose_is_manual,     \* the "manually edited" flag handed to the generator
  generated_prompt,
  state_hash,
  saves,              \* the in-memory list of SavedState
  save_file,          \* the list last written to the save file (write_saves; the
                      \* write is taken to succeed)
  save_dialog,        \* None, or Some(text typed so far)
  load_dialog,
  status_message,
  status_timer,       \* in tenths of a second
  view_mode,
  dragging_joint,     \* canvas_state.dragging_joint
  dragging_joint_3d,
  camera_yaw,         \* camera_3d.yaw, in thousandths of a radian
  dragged,            \* a drag gesture on the canvas in view is in progress
  event,              \* the latest input that acted on the application
  inputs,             \* panel edits, toggles, resets and drag frames so far
  repaint             \* update() asked for another frame (ctx.request_repaint)

appvars ==
  << state, default_pose, pose_is_manual, generated_prompt, state_hash, saves,
     save_file, save_dialog, load_dialog, status_message, status_timer, view_mode,
     dragging_joint, dragging_joint_3d, camera_yaw, dragged, event, inputs, repaint >>

\* ------------------------------------------------------------ one call

VARIABLES
  call,        \* a function under study and the arguments it is called with
  ret          \* None before the call, Some(value returned) after it

callvars == <<call, ret>>

vars == <<posevars, fabvars, appvars, callvars>>

\* bounds on the inputs that act on the AppState or switch the view, and on
\* the saves, of one run
MaxInputs == 3
MaxSaves == 1

\* the frame time (stable_dt), in tenths of a second
FrameDt == 30

\* Camera3D::default().yaw, 0.5 rad
DefaultYaw == 500

\* the camera turns by 0.008 rad for each pixel of horizontal motion
YawPerPixel == 8

\* horizontal pointer motion in one frame, in pixels
DragDeltas == {-10, 0, 25}

\* the iteration orders a HashMap may yield for the non-ORDER group keys
IterOrders ==
  { <<Some("Wardrobe"), Some("Accessories")>>, <<Some("Accessories"), Some("Wardrobe")>> }

\* texts typed into the save dialog
TypedNames == { <<" ">>, <<" ", "hero", " ">> }

\* what timestamp() returns at the time of a save
Timestamps == {"2026-11-03  12:00"}

\* pointer positions at which a drag on the 2D canvas starts
PressPoints == { <<4050, 780>>, <<3400, 1500>>, <<4200, 3200>>, <<4500, 3994>>, <<6500, 500>> }

\* pointer positions a drag on the 2D canvas moves to
MovePoints == { <<3000, 2000>>, <<4800, 500>> }

\* what find_nearest_joint_3d returns for a press on the 3D canvas
Hits3d == { None, Some("left_wrist"), Some("hips") }

\* target_canvas of update_joint_3d, None when the unprojection fails
Targets3d == { None, Some(<<3000, 3000, 500>>) }

Event(kind, key, id, idx, was_manual) ==
  [kind |-> kind, key |-> key, id |-> id, idx |-> idx, was_manual |-> was_manual]

\* the application as PromptPuppetApp::new leaves it: Default::default(),
\* then update_prompt(); no save file yet
AppIdle ==
  /\ state = DefaultState
  /\ default_pose = DefaultPose
  /\ pose_is_manual = FALSE
  /\ \E iter \in IterOrders : generated_prompt = Generate(DefaultState, FALSE, iter)
  /\ state_hash = ""
  /\ saves = <<>> /\ save_file = <<>>
  /\ save_dialog = None /\ load_dialog = FALSE
  /\ status_message = "" /\ status_timer = 0
  /\ view_mode = "View2D"
  /\ dragging_joint = None /\ dragging_joint_3d = None
  /\ camera_yaw = DefaultYaw /\ dragged = FALSE
  /\ event = Event("new", "", "", 0, FALSE)
  /\ inputs = 0
  /\ repaint = FALSE

\* no drag is in progress: the pointer is free to click
NoDrag == ~dragged

\* no dialog is open.  The runs explored deal with an open dialog before
\* they turn to the top bar, the panels or the canvas.
DialogsClosed == save_dialog = None /\ ~load_dialog

\* the pointer is free and one more input is within the bound
MayAct == NoDrag /\ DialogsClosed /\ inputs < MaxInputs

\* The "manually edited" flag after a canvas drag: set once a drag has edited
\* the pose.
ManualAfterDrag(manual, before, after) == manual \/ after # before

\* The flag after update_state_from_selection: cleared when the chosen item
\* carried pose data.
ManualAfterSelection(manual, id, items) ==
  IF PoseDataOf(FindItem(items, id)) = None THEN manual ELSE FALSE

\* the end of update(): the state digest is compared and the prompt rebuilt
\* when it differs; then the status timer runs down.  st2, manual2, prompt2,
\* msg2 and timer2 are the values the frame's handlers have left.
\* a timer that no frame runs down
TimerKept(timer2, dt) == timer2

\* `if self.status_timer > 0.0 { self.status_timer -= stable_dt; .. }`
TimerAfter(timer2, dt) == IF timer2 > 0 THEN timer2 - dt ELSE timer2

FinishFrameDt(st2, manual2, prompt2, msg2, timer2, dt) ==
  /\ state' = st2
  /\ pose_is_manual' = manual2
  /\ state_hash' = IF HashDiffers(StateHash(st2), state_hash) THEN StateHash(st2)
                   ELSE state_hash
  /\ \E iter \in IterOrders :
       generated_prompt' = IF HashDiffers(StateHash(st2), state_hash)
                           THEN Generate(st2, manual2, iter) ELSE prompt2
  /\ status_timer' = TimerAfter(timer2, dt)
  /\ status_message' = IF timer2 > 0 /\ TimerAfter(timer2, dt) <= 0 THEN "" ELSE msg2
  /\ repaint' = (timer2 > 0)
  /\ UNCHANGED <<posevars, fabvars, callvars>>

\* the frame at the model's frame time
FinishFrame(st2, manual2, prompt2, msg2, timer2) ==
  FinishFrameDt(st2, manual2, prompt2, msg2, timer2, FrameDt)

\* a frame whose handlers leave the AppState as it is
QuietFrame == FinishFrame(state, pose_is_manual, generated_prompt, status_message, status_timer)

\* a frame in which the left panel reported a change: update_prompt() runs
PanelFrame(st2, manual2, msg2, timer2) ==
  \E iter \in IterOrders :
    FinishFrame(st2, manual2, Generate(st2, manual2, iter), msg2, timer2)


\* a standing pose in which every bone has its configured length
StandingPose ==
  [ head |-> <<0, -1000, 0>>, neck |-> <<0, 0, 0>>,
    left_shoulder |-> <<-1000, 0, 0>>, right_shoulder |-> <<1000, 0, 0>>,
    left_elbow |-> <<-1000, 2000, 0>>, right_elbow |-> <<1000, 2000, 0>>,
    left_wrist |-> <<-1000, 4000, 0>>, right_wrist |-> <<1000, 4000, 0>>,
    waist |-> <<0, 2000, 0>>, crotch |-> <<0, 3000, 0>>,
    left_knee |-> <<-1200, 4600, 0>>, right_knee |-> <<1200, 4600, 0>>,
    left_ankle |-> <<-1200, 6600, 0>>, right_ankle |-> <<1200, 6600, 0>> ]

\* bound on the number of successive drags
MaxMoves == 2

\* drag targets: points in free space (in reach, far out of reach, below the
\* feet, behind the body) and the positions other joints currently occupy
FreeTargets ==
  { <<500, -1500, 0>>, <<-6000, 1000, 500>>, <<0, 9000, 0>>, <<1500, 3000, -800>> }

JointTargets(p) ==
  { p.neck, p.waist, p.crotch, p.left_shoulder, p.left_wrist, p.right_knee }

Targets(p) == FreeTargets \cup JointTargets(p)

\* the names a caller may pass: the 14 joints and one name joint_mut rejects
CallNames == JointNames \cup {"tail"}

FabIdle ==
  /\ chain = <<>> /\ lengths = <<>> /\ target = <<0, 0, 0>>
  /\ con = NoConstraint /\ chain0 = <<>> /\ solves = 0

PoseIdle ==
  /\ pose = StandingPose /\ moves = 0 /\ lastJoint = "" /\ lastTarget = <<0, 0, 0>>

\* ------------------------------------------------------------ json_loader.rs: to_pose

\* the depth to_pose gives a point authored without z
SmartZ(name) ==
  CASE name \in {"left_elbow", "right_elbow", "left_wrist", "right_wrist"} -> -4 * PosScale
    [] name \in {"left_knee", "right_knee", "left_ankle", "right_ankle"} -> 6 * PosScale
    [] name = "pelvis" -> 4 * PosScale
    [] OTHER -> 0

\* the closure pt: sf maps the authored names to points of two or three
\* coordinates (in ticks, scale 1, y upward)
Pt(sf, name, cx, cy) ==
  IF name \notin DOMAIN sf THEN <<cx, cy, 0>>
  ELSE << cx + sf[name][1], cy - sf[name][2],
          IF Len(sf[name]) >= 3 THEN sf[name][3] ELSE SmartZ(name) >>

\* the closure constrain_dist
ConstrainDist(from, to, len) ==
  IF VDistance(from, to) < 1 THEN <<from[1] + len, from[2], from[3]>>
  ELSE VAdd(from, VScale(VSub(to, from), len, VDistance(from, to)))

\* the midpoint of two points
MidPoint(a, b) == <<RDiv(a[1] + b[1], 2), RDiv(a[2] + b[2], 2), RDiv(a[3] + b[3], 2)>>

\* the Pose literal of to_pose, before any segment is forced
RawPose(sf, cx, cy) ==
  [ head |-> Pt(sf, "head", cx, cy),
    neck |-> IF "neck" \in DOMAIN sf THEN Pt(sf, "neck", cx, cy)
             ELSE MidPoint(Pt(sf, "left_shoulder", cx, cy), Pt(sf, "right_shoulder", cx, cy)),
    left_shoulder |-> Pt(sf, "left_shoulder", cx, cy),
    right_shoulder |-> Pt(sf, "right_shoulder", cx, cy),
    left_elbow |-> Pt(sf, "left_elbow", cx, cy),
    right_elbow |-> Pt(sf, "right_elbow", cx, cy),
    left_wrist |-> VAdd(Pt(sf, "left_elbow", cx, cy), <<0, Seg("forearm"), 0>>),
    right_wrist |-> VAdd(Pt(sf, "right_elbow", cx, cy), <<0, Seg("forearm"), 0>>),
    waist |-> <<0, 0, 0>>,
    crotch |-> Pt(sf, "pelvis", cx, cy),
    left_knee |-> Pt(sf, "left_knee", cx, cy),
    right_knee |-> Pt(sf, "right_knee", cx, cy),
    left_ankle |-> VAdd(Pt(sf, "left_knee", cx, cy), <<0, Seg("shin"), 0>>),
    right_ankle |-> VAdd(Pt(sf, "right_knee", cx, cy), <<0, Seg("shin"), 0>>) ]

\* `waist: Joint::new_3d(smid.x, smid.y + sk.seg("torso_upper"), smid.z)`
WithWaist(p) == [p EXCEPT !.waist = VAdd(p.neck, <<0, Seg("torso_upper"), 0>>)]

\* "Fix shoulder width": both shoulders at half the width from their midpoint
FixShoulderWidth(p) ==
  IF VDistance(p.left_shoulder, MidPoint(p.left_shoulder, p.right_shoulder)) <= 1 THEN p
  ELSE [p EXCEPT
         !.left_shoulder =
           VAdd(MidPoint(p.left_shoulder, p.right_shoulder),
                VScale(VSub(p.left_shoulder, MidPoint(p.left_shoulder, p.right_shoulder)),
                       Seg("shoulder_width") \div 2,
                       VDistance(p.left_shoulder, MidPoint(p.left_shoulder, p.right_shoulder)))),
         !.right_shoulder =
           VSub(MidPoint(p.left_shoulder, p.right_shoulder),
                VScale(VSub(p.left_shoulder, MidPoint(p.left_shoulder, p.right_shoulder)),
                       Seg("shoulder_width") \div 2,
                       VDistance(p.left_shoulder, MidPoint(p.left_shoulder, p.right_shoulder)))) ]

\* a snap that leaves the authored neck where it is
KeepNeck(p) == p

\* the neck snapped to the midpoint of the constrained shoulders, the head
\* translated by the same delta
SnapNeck(p) ==
  [p EXCEPT !.neck = MidPoint(p.left_shoulder, p.right_shoulder),
            !.head = VAdd(p.head, VSub(MidPoint(p.left_shoulder, p.right_shoulder), p.neck))]

\* "Fix left arm", "Fix right arm"
FixArm(p, side) ==
  IF side = "left"
  THEN [p EXCEPT
         !.left_elbow = ConstrainDist(p.left_shoulder, p.left_elbow, Seg("arm")),
         !.left_wrist = ConstrainDist(ConstrainDist(p.left_shoulder, p.left_elbow, Seg("arm")),
                                      p.left_wrist, Seg("forearm"))]
  ELSE [p EXCEPT
         !.right_elbow = ConstrainDist(p.right_shoulder, p.right_elbow, Seg("arm")),
         !.right_wrist = ConstrainDist(ConstrainDist(p.right_shoulder, p.right_elbow, Seg("arm")),
                                       p.right_wrist, Seg("forearm"))]

\* "Fix spine"
FixSpine(p) ==
  [p EXCEPT
    !.waist = ConstrainDist(p.neck, p.waist, Seg("torso_upper")),
    !.crotch = ConstrainDist(ConstrainDist(p.neck, p.waist, Seg("torso_upper")),
                             p.crotch, Seg("torso_lower"))]

\* "Fix left leg", "Fix right leg"
FixLeg(p, side) ==
  IF side = "left"
  THEN [p EXCEPT
         !.left_knee = ConstrainDist(p.crotch, p.left_knee, Seg("thigh")),
         !.left_ankle = ConstrainDist(ConstrainDist(p.crotch, p.left_knee, Seg("thigh")),
                                      p.left_ankle, Seg("shin"))]
  ELSE [p EXCEPT
         !.right_knee = ConstrainDist(p.crotch, p.right_knee, Seg("thigh")),
         !.right_ankle = ConstrainDist(ConstrainDist(p.crotch, p.right_knee, Seg("thigh")),
                                       p.right_ankle, Seg("shin"))]

\* GenericItem::to_pose for an item with a stick figure (the joints; the head
\* angles derived at the end are not carried)
ToPose(sf, cx, cy) ==
  FixLeg(FixLeg(FixSpine(FixArm(FixArm(
    SnapNeck(FixShoulderWidth(WithWaist(RawPose(sf, cx, cy)))),
    "left"), "right")), "left"), "right")

\* the stick figure of a standing preset, authored with three coordinates
\* and every bone at its length
StandingJson ==
  [ head |-> <<0, 1000, 0>>, neck |-> <<0, 0, 0>>,
    left_shoulder |-> <<-1000, 0, 0>>, right_shoulder |-> <<1000, 0, 0>>,
    left_elbow |-> <<-1000, -2000, 0>>, right_elbow |-> <<1000, -2000, 0>>,
    pelvis |-> <<0, -3000, 0>>,
    left_knee |-> <<-1200, -4600, 0>>, right_knee |-> <<1200, -4600, 0>> ]

\* a figure authored in two coordinates, with the neck above the shoulder
\* line, the shoulders too wide and tilted
AuthoredJson ==
  [ head |-> <<0, 1500>>, neck |-> <<0, 500>>,
    left_shoulder |-> <<-1500, 0>>, right_shoulder |-> <<1500, 200>>,
    left_elbow |-> <<-1800, -1500>>, right_elbow |-> <<1800, -1500>>,
    pelvis |-> <<0, -3500>>,
    left_knee |-> <<-800, -5000>>, right_knee |-> <<800, -5000>> ]

\* a figure that authors no neck, its shoulders turned in depth
BareJson ==
  [ head |-> <<0, 1000>>,
    left_shoulder |-> <<-800, 0, -600>>, right_shoulder |-> <<800, 0, 600>>,
    left_elbow |-> <<-1000, -2000>>, right_elbow |-> <<1000, -2000>>,
    pelvis |-> <<0, -3000>>,
    left_knee |-> <<-1200, -4600>>, right_knee |-> <<1200, -4600>> ]

StickFigures == {StandingJson, AuthoredJson, BareJson}

\* the poses to_pose produces from them
LoadedPoses == { ToPose(sf, 0, 0) : sf \in StickFigures }

\* no function is under study
CallIdle == call = [fn |-> ""] /\ ret = <<>>

\* the pose is one that to_pose has produced
InitPose ==
  /\ pose \in LoadedPoses /\ moves = 0 /\ lastJoint = "" /\ lastTarget = <<0, 0, 0>>
  /\ FabIdle /\ AppIdle /\ CallIdle

\* one call of Pose::move_joint_constrained(name, target)
MoveJoint ==
  /\ moves < MaxMoves
  /\ \E name \in CallNames : \E t \in Targets(pose) :
       /\ pose' = MoveJointConstrained(pose, name, t)
       /\ lastJoint' = name
       /\ lastTarget' = t
  /\ moves' = moves + 1
  /\ UNCHANGED <<fabvars, appvars, callvars>>

NextPose == MoveJoint

SpecPose == InitPose /\ [][NextPose]_vars

\* ------------------------------------------------------------ measurements

\* the bones of the skeleton with the segment that fixes each one's length
Bones ==
  { <<"neck", "head", "neck">>,
    <<"left_shoulder", "right_shoulder", "shoulder_width">>,
    <<"left_shoulder", "left_elbow", "arm">>,
    <<"right_shoulder", "right_elbow", "arm">>,
    <<"left_elbow", "left_wrist", "forearm">>,
    <<"right_elbow", "right_wrist", "forearm">>,
    <<"neck", "waist", "torso_upper">>,
    <<"waist", "crotch", "torso_lower">>,
    <<"crotch", "left_knee", "thigh">>,
    <<"crotch", "right_knee", "thigh">>,
    <<"left_knee", "left_ankle", "shin">>,
    <<"right_knee", "right_ankle", "shin">> }

\* tolerance, in thousandths of a unit, within which a measured length counts
\* as exact (it absorbs the rounding of the fixed-point arithmetic)
LenTol == 5

BoneError(p, b) == Abs(VDistance(p[b[1]], p[b[2]]) - Seg(b[3]))

AllBonesExact(p) == \A b \in Bones : BoneError(p, b) <= LenTol

\* the angle at `joint` between joint->root and joint->end, 180 = straight
JointAngle(root, joint, end) ==
  AcosDeg(Clamp(VDot(VNorm(VSub(root, joint), PosScale), VNorm(VSub(end, joint), PosScale)),
                -UnitScale, UnitScale))

\* tolerance, in hundredths of a degree, on a measured angle
AngleTol == 100

\* the hinge (root, joint, end) that a drag of joint `name` solves, if any
HingeOf(name) ==
  CASE name \in {"left_elbow", "left_wrist"}   -> <<"left_shoulder", "left_elbow", "left_wrist">>
    [] name \in {"right_elbow", "right_wrist"} -> <<"right_shoulder", "right_elbow", "right_wrist">>
    [] name \in {"left_knee", "left_ankle"}    -> <<"crotch", "left_knee", "left_ankle">>
    [] name \in {"right_knee", "right_ankle"}  -> <<"crotch", "right_knee", "right_ankle">>
    [] OTHER -> <<>>

HingeMin(name) ==
  IF name \in {"left_elbow", "left_wrist", "right_elbow", "right_wrist"}
  THEN DefaultElbow.min ELSE DefaultKnee.min

HingeMax(name) ==
  IF name \in {"left_elbow", "left_wrist", "right_elbow", "right_wrist"}
  THEN DefaultElbow.max ELSE DefaultKnee.max

LastHingeAngle ==
  LET h == HingeOf(lastJoint) IN JointAngle(pose[h[1]], pose[h[2]], pose[h[3]])

FloorY(p) == Max2(p.left_ankle[2], p.right_ankle[2])

\* ------------------------------------------------------------ properties of the pose

\* C1: starting from a pose in which every bone has its configured length,
\* after any sequence of move_joint_constrained calls every bone still
\* measures head_size * segment.
C1_BoneLengthInvariance == AllBonesExact(pose)

\* C1, the case: a drag has been made and some bone no longer has its length
C1_BoneLost == moves > 0 /\ ~AllBonesExact(pose)

\* C2: in every pose reachable by joint moves no joint other than the two
\* ankles has a y greater than max(left_ankle.y, right_ankle.y).
C2_FloorInvariant ==
  \A j \in JointNames \ {"left_ankle", "right_ankle"} : pose[j][2] <= FloorY(pose)

\* C2, the case: a drag has put a joint below the feet
C2_BelowFloor ==
  moves > 0 /\ \E j \in JointNames \ {"left_ankle", "right_ankle"} : pose[j][2] > FloorY(pose)

\* C9: after any drag of an elbow, wrist, knee or ankle the angle at that
\* limb's elbow/knee is never below the configured min nor above the
\* configured max.
C9_HingeBound ==
  HingeOf(lastJoint) # <<>> =>
    /\ LastHingeAngle >= HingeMin(lastJoint) - AngleTol
    /\ LastHingeAngle <= HingeMax(lastJoint) + AngleTol

\* C9, the case: a limb drag has left the hinge folded below its minimum
C9_FoldedBelowMin ==
  HingeOf(lastJoint) # <<>> /\ LastHingeAngle < HingeMin(lastJoint) - AngleTol

\* ------------------------------------------------------------ the solver alone

\* bound on the number of successive solves of one chain
MaxSolves == 2

\* chains whose two segments have the lengths the caller passes: a straight
\* arm, a bent arm, a straight spine (unequal segments), a bent leg
FabCases ==
  { [chain |-> << <<0, 0, 0>>, <<0, 2000, 0>>, <<0, 4000, 0>> >>, lengths |-> <<2000, 2000>>],
    [chain |-> << <<0, 0, 0>>, <<0, 2000, 0>>, <<2000, 2000, 0>> >>, lengths |-> <<2000, 2000>>],
    [chain |-> << <<0, 0, 0>>, <<0, 2000, 0>>, <<0, 3000, 0>> >>, lengths |-> <<2000, 1000>>],
    [chain |-> << <<0, 0, 0>>, <<1200, 1600, 0>>, <<1200, 3600, 0>> >>, lengths |-> <<2000, 2000>>] }

\* the closures the callers pass: none (fabrik_torso), the elbow hinge
\* (fabrik_left_arm), the knee hinge (fabrik_left_leg)
FabConstraints ==
  { NoConstraint, HingeConstraint(DefaultElbow, PoleL), HingeConstraint(DefaultKnee, PoleFwd) }

FabTargets ==
  { <<0, 3000, 0>>, <<1500, 1500, 500>>, <<0, 500, 0>>, <<-1000, 2000, 1000>>,
    <<2500, 0, 0>>, <<0, 0, 0>>, <<3000, 3000, 3000>> }

\* "within reach": distance(root, target) <= L1 + L2
InReach(c, ls, t) == VDistance(c[1], t) <= ls[1] + ls[2]

InitFabrik ==
  /\ PoseIdle /\ AppIdle /\ CallIdle
  /\ \E k \in FabCases : chain = k.chain /\ lengths = k.lengths /\ chain0 = k.chain
  /\ con \in FabConstraints
  /\ target = <<0, 0, 0>>
  /\ solves = 0

\* one call of fabrik_solve_constrained(chain, lengths, t, 2, con)
FabrikSolve ==
  /\ solves < MaxSolves
  /\ \E t \in FabTargets :
       /\ InReach(chain, lengths, t)
       /\ chain' = FabrikSolveConstrained(chain, lengths, t, 2, con)
       /\ target' = t
  /\ chain0' = chain
  /\ solves' = solves + 1
  /\ UNCHANGED <<lengths, con, posevars, appvars, callvars>>

NextFabrik == FabrikSolve

SpecFabrik == InitFabrik /\ [][NextFabrik]_vars

\* C10: for a 3-joint chain with segment lengths L1, L2 and a target for the
\* end joint with distance(root, target) <= L1 + L2, after the solver returns
\* the end joint lies within 0.001 of the target, the root is where it was and
\* both segments have lengths L1 and L2.
C10_FabrikConverges ==
  solves > 0 =>
    /\ VDistance(chain[3], target) <= LenTol
    /\ chain[1] = chain0[1]
    /\ Abs(VDistance(chain[1], chain[2]) - lengths[1]) <= LenTol
    /\ Abs(VDistance(chain[2], chain[3]) - lengths[2]) <= LenTol

\* C10, the case: the solver returned for a reachable target and the end
\* joint is not on it
C10_MissedTarget == solves > 0 /\ VDistance(chain[3], target) > LenTol

\* ------------------------------------------------------------ frames

\* Every action is one call of update() handling one input: the dialogs, the
\* top bar, the left panel, the canvas, then the digest comparison and the
\* status timer.  Status texts are given without their leading emoji.

appframe ==
  <<default_pose, view_mode, dragging_joint, dragging_joint_3d, camera_yaw, dragged>>

\* a frame without input
IdleFrame ==
  /\ NoDrag
  /\ QuietFrame
  /\ UNCHANGED event
  /\ UNCHANGED <<appframe, saves, save_file, save_dialog, load_dialog, inputs>>

\* "Save State" is clicked
SaveStateClick ==
  /\ NoDrag /\ DialogsClosed
  /\ save_dialog' = Some(<<>>)
  /\ QuietFrame
  /\ UNCHANGED event
  /\ UNCHANGED <<appframe, saves, save_file, load_dialog, inputs>>

\* a name is typed into the open save dialog: no action, the dialog stays open
SaveType ==
  /\ save_dialog # None
  /\ \E text \in TypedNames : save_dialog' = Some(text)
  /\ QuietFrame
  /\ UNCHANGED event
  /\ UNCHANGED <<appframe, saves, save_file, load_dialog, inputs>>

\* Save or Enter with a name that is not blank: do_save
SaveConfirmUpTo(max) ==
  /\ save_dialog # None
  /\ Trim(save_dialog[1]) # <<>>
  /\ Len(saves) < max
  /\ \E ts \in Timestamps :
       saves' = Append(saves, [name |-> Trim(save_dialog[1]), timestamp |-> ts,
                               state |-> state])
  /\ save_file' = saves'
  /\ save_dialog' = None
  /\ FinishFrame(state, pose_is_manual, generated_prompt,
                 "Saved \"" \o Flat(Trim(save_dialog[1])) \o "\"", 30)
  /\ event' = Event("save", "", Flat(Trim(save_dialog[1])), Len(saves) + 1, pose_is_manual)
  /\ UNCHANGED <<appframe, load_dialog, inputs>>

SaveConfirm == SaveConfirmUpTo(MaxSaves)

\* Save or Enter with a blank name: no action, the dialog stays open
SaveBlank ==
  /\ save_dialog # None
  /\ Trim(save_dialog[1]) = <<>>
  /\ QuietFrame
  /\ UNCHANGED event
  /\ UNCHANGED <<appframe, saves, save_file, save_dialog, load_dialog, inputs>>

\* Cancel or Escape in the save dialog
SaveCancel ==
  /\ save_dialog # None
  /\ save_dialog' = None
  /\ QuietFrame
  /\ UNCHANGED event
  /\ UNCHANGED <<appframe, saves, save_file, load_dialog, inputs>>

\* "Load State" is clicked
LoadStateClick ==
  /\ NoDrag /\ DialogsClosed
  /\ load_dialog' = TRUE
  /\ QuietFrame
  /\ UNCHANGED event
  /\ UNCHANGED <<appframe, saves, save_file, save_dialog, inputs>>

\* a save is picked in the load dialog: do_load, which ends in update_prompt()
LoadPick ==
  /\ NoDrag
  /\ load_dialog
  /\ \E idx \in 1..Len(saves) :
       /\ PanelFrame(Loaded(saves[idx]), pose_is_manual,
                     "Loaded \"" \o Flat(saves[idx].name) \o "\"", 30)
       /\ event' = Event("load", "", Flat(saves[idx].name), idx, pose_is_manual)
  /\ load_dialog' = FALSE
  /\ UNCHANGED <<appframe, saves, save_file, save_dialog, inputs>>

\* a save's delete button is clicked in the load dialog: do_delete
DeletePick ==
  /\ NoDrag
  /\ load_dialog
  /\ \E idx \in 1..Len(saves) :
       /\ saves' = Remove(saves, idx)
       /\ FinishFrame(state, pose_is_manual, generated_prompt,
                      "Deleted \"" \o Flat(saves[idx].name) \o "\"", 20)
       /\ event' = Event("delete", "", Flat(saves[idx].name), idx, pose_is_manual)
  /\ save_file' = saves'
  /\ UNCHANGED <<appframe, save_dialog, load_dialog, inputs>>

\* Close or Escape in the load dialog
LoadClose ==
  /\ load_dialog
  /\ load_dialog' = FALSE
  /\ QuietFrame
  /\ UNCHANGED event
  /\ UNCHANGED <<appframe, saves, save_file, save_dialog, inputs>>

\* "Reset Pose" is clicked: reset_pose_to_default
ResetPoseClick ==
  /\ MayAct
  /\ FinishFrame(ResetPoseToDefault(state, default_pose), pose_is_manual, generated_prompt,
                 "Reset to default pose", 20)
  /\ event' = Event("reset", "", "", 0, pose_is_manual)
  /\ inputs' = inputs + 1
  /\ UNCHANGED <<appframe, saves, save_file, save_dialog, load_dialog>>

\* the Video Mode checkbox is clicked
VideoModeClick ==
  /\ MayAct
  /\ FinishFrame(VideoModeToggled(state), pose_is_manual, generated_prompt,
                 status_message, status_timer)
  /\ event' = Event("video", "", "", Cardinality(ToReset([state EXCEPT !.video_mode = ~@])),
                    pose_is_manual)
  /\ inputs' = inputs + 1
  /\ UNCHANGED <<appframe, saves, save_file, save_dialog, load_dialog>>

\* the 2D / 3D button of the other view is clicked
ViewClick ==
  /\ MayAct
  /\ view_mode' = IF view_mode = "View2D" THEN "View3D" ELSE "View2D"
  /\ QuietFrame
  /\ event' = Event("view", "", "", 0, pose_is_manual)
  /\ inputs' = inputs + 1
  /\ UNCHANGED <<default_pose, dragging_joint, dragging_joint_3d, camera_yaw, dragged,
                 saves, save_file,
                 save_dialog, load_dialog>>

\* the data source keys of the components of one type
ComponentKeys(component_type) ==
  UNION { { TrimJson(UiPanels[i].components[c].data_source) :
              c \in { d \in 1..Len(UiPanels[i].components) :
                        UiPanels[i].components[d].component_type = component_type } } :
          i \in 1..Len(UiPanels) }

\* the keys render_preset_selector serves: preset_selector panels and
\* searchable_dropdown components
SelectorKeys ==
  { TrimJson(UiPanels[i].data_source) :
      i \in { j \in 1..Len(UiPanels) : UiPanels[j].panel_type = "preset_selector" } }
  \cup ComponentKeys("searchable_dropdown")

\* the keys render_simple_dropdown serves
DropdownKeys == ComponentKeys("dropdown")

\* an option of a category is chosen in an options_grid panel
OptionEdit ==
  /\ MayAct
  /\ \E key \in DOMAIN Libraries :
       \E c \in 1..Len(Libraries[key].categories) :
         \E o \in 1..Len(Libraries[key].categories[c].options) :
           /\ key \in DOMAIN state.options
           /\ Libraries[key].categories[c].id \in DOMAIN state.options[key]
           /\ Libraries[key].categories[c].options[o]
                # state.options[key][Libraries[key].categories[c].id]
           /\ PanelFrame([state EXCEPT !.options[key][Libraries[key].categories[c].id] =
                            Libraries[key].categories[c].options[o]],
                         pose_is_manual, status_message, status_timer)
           /\ event' = Event("option", key, Libraries[key].categories[c].id, 0,
                             pose_is_manual)
  /\ inputs' = inputs + 1
  /\ UNCHANGED <<appframe, saves, save_file, save_dialog, load_dialog>>

\* a slider is moved or a dropdown value chosen in a controls panel
SettingEdit ==
  /\ MayAct
  /\ \E key \in DOMAIN SettingsMeta :
       \E s \in 1..Len(SettingsMeta[key].settings) :
         \E v \in 1..Len(SettingsMeta[key].settings[s].values) :
           /\ key \in DOMAIN state.settings
           /\ Get(state.settings[key], SettingsMeta[key].settings[s].id)
                # Some(SettingsMeta[key].settings[s].values[v])
           /\ PanelFrame([state EXCEPT !.settings[key] =
                            [id \in DOMAIN @ \cup {SettingsMeta[key].settings[s].id} |->
                               IF id = SettingsMeta[key].settings[s].id
                               THEN SettingsMeta[key].settings[s].values[v] ELSE @[id]]],
                         pose_is_manual, status_message, status_timer)
           /\ event' = Event("setting", key, SettingsMeta[key].settings[s].id, 0,
                             pose_is_manual)
  /\ inputs' = inputs + 1
  /\ UNCHANGED <<appframe, saves, save_file, save_dialog, load_dialog>>

\* an item is clicked in the list of render_preset_selector: handle_selection
PresetClick ==
  /\ MayAct
  /\ \E key \in SelectorKeys \cap DOMAIN PresetItems :
       \E i \in 1..Len(PresetItems[key]) :
         /\ IF AllowMulti(Get(PresetMetadata, key), state.video_mode)
            THEN PanelFrame(HandleSelection(state, key, PresetItems[key][i].id,
                                            PresetItems[key], Get(PresetMetadata, key)),
                            pose_is_manual, status_message, status_timer)
            ELSE PanelFrame(HandleSelection(state, key, PresetItems[key][i].id,
                                            PresetItems[key], Get(PresetMetadata, key)),
                            ManualAfterSelection(pose_is_manual, PresetItems[key][i].id,
                                                 PresetItems[key]),
                            PresetItems[key][i].name, 20)
         /\ event' = Event(IF AllowMulti(Get(PresetMetadata, key), state.video_mode)
                           THEN "toggle" ELSE "select",
                           key, PresetItems[key][i].id, 0, pose_is_manual)
  /\ inputs' = inputs + 1
  /\ UNCHANGED <<appframe, saves, save_file, save_dialog, load_dialog>>

\* the remove button of a chip is clicked (chips are shown in multi mode)
ChipRemove ==
  /\ MayAct
  /\ \E key \in SelectorKeys \cap DOMAIN state.selections :
       \E i \in 1..Len(state.selections[key].selected) :
         /\ AllowMulti(Get(PresetMetadata, key), state.video_mode)
         /\ PanelFrame(ChipRemoved(state, key, state.selections[key].selected[i]),
                       pose_is_manual, status_message, status_timer)
         /\ event' = Event("chip", key, state.selections[key].selected[i], 0,
                           pose_is_manual)
  /\ inputs' = inputs + 1
  /\ UNCHANGED <<appframe, saves, save_file, save_dialog, load_dialog>>

\* an item is chosen in the combo box of render_simple_dropdown
DropdownClick ==
  /\ MayAct
  /\ \E key \in DropdownKeys \cap DOMAIN PresetItems :
       \E i \in 1..Len(PresetItems[key]) :
         /\ IF DropdownChanged(state, key, PresetItems[key][i].id)
            THEN PanelFrame(DropdownSelect(state, key, PresetItems[key][i].id,
                                           PresetItems[key]),
                            ManualAfterSelection(pose_is_manual, PresetItems[key][i].id,
                                                 PresetItems[key]),
                            status_message, status_timer)
            ELSE FinishFrame(DropdownSelect(state, key, PresetItems[key][i].id,
                                            PresetItems[key]),
                             pose_is_manual, generated_prompt, status_message, status_timer)
         /\ event' = Event("dropdown", key, PresetItems[key][i].id, 0, pose_is_manual)
  /\ inputs' = inputs + 1
  /\ UNCHANGED <<appframe, saves, save_file, save_dialog, load_dialog>>

\* the buttons render_sequence_panel shows: one to remove each entry of each
\* sequence that is not empty, and "Clear All Sequences"
SequenceButtons(st) ==
  UNION { { [kind |-> "remove", key |-> k, idx |-> i] :
              i \in 1..Len(st.selections[k].sequence) } : k \in DOMAIN st.selections }
  \cup { [kind |-> "clear", key |-> "", idx |-> 0] }

\* render_sequence_panel when button b is clicked
SequenceClicked(st, b) ==
  IF b.kind = "remove"
  THEN [st EXCEPT !.selections[b.key].sequence = Remove(@, b.idx)]
  ELSE [st EXCEPT !.selections =
          [k \in DOMAIN @ |-> [@[k] EXCEPT !.sequence = <<>>]]]

\* a button of the sequence panel is clicked (the panel is shown in video mode)
SequenceClick ==
  /\ MayAct
  /\ \E i \in 1..Len(UiPanels) : UiPanels[i].panel_type = "sequence"
  /\ state.video_mode
  /\ \E b \in SequenceButtons(state) :
       /\ PanelFrame(SequenceClicked(state, b), pose_is_manual, status_message,
                     status_timer)
       /\ event' = Event("sequence", b.key, b.kind, b.idx, pose_is_manual)
  /\ inputs' = inputs + 1
  /\ UNCHANGED <<appframe, saves, save_file, save_dialog, load_dialog>>

\* a drag frame of the canvas in view: the pose p2 is what the handler left
DragFrame(p2) ==
  FinishFrame([state EXCEPT !.pose = p2], ManualAfterDrag(pose_is_manual, state.pose, p2),
              generated_prompt, status_message, status_timer)

\* the dragged() branch of draw_pose_canvas
Dragged2d(hit, c) ==
  IF hit = None THEN state.pose ELSE UpdateJointPosition(state.pose, hit[1], c)

\* the dragged() branch of draw_3d_canvas; without a joint the camera turns
Dragged3d(hit, t) ==
  IF hit = None \/ t = None THEN state.pose ELSE UpdateJoint3d(state.pose, hit[1], t[1])

JointName(hit) == IF hit = None THEN "" ELSE hit[1]

\* what the pointer reports in a drag frame of the 3D canvas: whether
\* interact_pointer_pos() is Some, and drag_delta().x in pixels.  egui derives
\* the delta from two successive pointer positions, so without a position
\* the delta is zero.
PointerFrames == { <<TRUE, dx>> : dx \in DragDeltas } \cup { <<FALSE, 0>> }

\* the camera turning with the pointer instead of against it
TurnBack(yaw, dx) == yaw + YawPerPixel * dx

\* camera.yaw -= response.drag_delta().x * 0.008
Turn(yaw, dx) == yaw - YawPerPixel * dx

\* the dragged() branch of draw_3d_canvas decides between joint and camera
MovesJoint(hit, ptr) == hit # None /\ ptr[1]

\* the horizontal motion that reached the camera, in pixels
Motion(hit, ptr) == IF MovesJoint(hit, ptr) THEN 0 ELSE ptr[2]

\* the dragged() branch of draw_3d_canvas
Drag3dFrame(hit, ptr, t) ==
  IF MovesJoint(hit, ptr)
  THEN /\ DragFrame(Dragged3d(hit, t))
       /\ camera_yaw' = camera_yaw
  ELSE /\ DragFrame(state.pose)
       /\ camera_yaw' = Turn(camera_yaw, ptr[2])

\* the frame in which a drag starts: the nearest joint is picked, then moved
DragStartUpTo(max) ==
  /\ NoDrag /\ DialogsClosed /\ inputs < max
  /\ dragged' = TRUE
  /\ IF view_mode = "View2D"
     THEN \E c \in PressPoints :
            /\ dragging_joint' = FindNearestJoint(state.pose, c)
            /\ DragFrame(Dragged2d(FindNearestJoint(state.pose, c), c))
            /\ event' = Event("drag", "", JointName(FindNearestJoint(state.pose, c)), 0,
                              pose_is_manual)
            /\ UNCHANGED <<dragging_joint_3d, camera_yaw>>
     ELSE \E hit \in Hits3d : \E t \in Targets3d : \E dx \in DragDeltas :
            /\ dragging_joint_3d' = hit
            /\ Drag3dFrame(hit, <<TRUE, dx>>, t)
            /\ event' = Event("drag", "", JointName(hit), Motion(hit, <<TRUE, dx>>),
                              pose_is_manual)
            /\ UNCHANGED dragging_joint
  /\ inputs' = inputs + 1
  /\ UNCHANGED <<default_pose, view_mode, saves, save_file, save_dialog, load_dialog>>

DragStart == DragStartUpTo(MaxInputs)

\* a later frame of the drag
DragMoveUpTo(max) ==
  /\ dragged
  /\ inputs < max
  /\ IF view_mode = "View2D"
     THEN \E c \in MovePoints :
            /\ DragFrame(Dragged2d(dragging_joint, c))
            /\ event' = Event("drag", "", JointName(dragging_joint), 0, pose_is_manual)
            /\ UNCHANGED camera_yaw
     ELSE \E t \in Targets3d : \E ptr \in PointerFrames :
            /\ Drag3dFrame(dragging_joint_3d, ptr, t)
            /\ event' = Event("drag", "", JointName(dragging_joint_3d),
                              Motion(dragging_joint_3d, ptr), pose_is_manual)
  /\ inputs' = inputs + 1
  /\ UNCHANGED <<default_pose, view_mode, dragging_joint, dragging_joint_3d, dragged,
                 saves, save_file, save_dialog, load_dialog>>

DragMove == DragMoveUpTo(MaxInputs)

\* the frame in which the pointer is released
DragStop ==
  /\ dragged
  /\ dragged' = FALSE
  /\ dragging_joint' = IF view_mode = "View2D" THEN None ELSE dragging_joint
  /\ dragging_joint_3d' = IF view_mode = "View3D" THEN None ELSE dragging_joint_3d
  /\ QuietFrame
  /\ UNCHANGED event
  /\ UNCHANGED <<default_pose, view_mode, camera_yaw, saves, save_file, save_dialog,
                 load_dialog, inputs>>

Init == PoseIdle /\ FabIdle /\ AppIdle /\ CallIdle

Next ==
  \/ IdleFrame
  \/ SaveStateClick \/ SaveType \/ SaveConfirm \/ SaveBlank \/ SaveCancel
  \/ LoadStateClick \/ LoadPick \/ DeletePick \/ LoadClose
  \/ ResetPoseClick \/ VideoModeClick \/ ViewClick
  \/ OptionEdit \/ SettingEdit \/ PresetClick \/ ChipRemove \/ DropdownClick
  \/ SequenceClick
  \/ DragStart \/ DragMove \/ DragStop

\* the application: frames of update() from the state new() leaves
Spec == Init /\ [][Next]_vars

\* ------------------------------------------------------------ save and load

\* two poses are told apart only beyond this many ticks per coordinate
PoseTol == 20

JointWithin(a, b, tol) == \A i \in 1..3 : Abs(a[i] - b[i]) <= tol

PoseWithin(p, q, tol) ==
  \A i \in 1..Len(AppJointNames) : JointWithin(p[AppJointNames[i]], q[AppJointNames[i]], tol)

\* the live state equals the saved one in every field, the pose up to PoseTol
StateRestored(live, saved) ==
  /\ live.options = saved.options
  /\ live.settings = saved.settings
  /\ live.selections = saved.selections
  /\ live.video_mode = saved.video_mode
  /\ live.custom_data = saved.custom_data
  /\ PoseWithin(live.pose, saved.pose, PoseTol)

\* C3: once a save has been loaded, the live AppState equals the state that
\* was saved, in every field: options, settings, selections, video_mode,
\* custom_data and every joint of the pose.
C3_SaveLoadRoundTrip ==
  event.kind = "load" => StateRestored(state, saves[event.idx].state)

\* a load has left a joint away from where it was saved
C3_LoadMovedJoint ==
  /\ event.kind = "load"
  /\ ~PoseWithin(state.pose, saves[event.idx].state.pose, PoseTol)
  /\ state.options = saves[event.idx].state.options
  /\ state.selections = saves[event.idx].state.selections

\* ------------------------------------------------------------ video mode

\* whether the multiple_selection policy of a key allows several ids under
\* the given video_mode: "always", "video" with video on, "image" with video off
PolicyAllows(key, video_mode) ==
  /\ key \in DOMAIN PresetMetadata
  /\ \/ PresetMetadata[key].multiple_selection = Some("always")
     \/ PresetMetadata[key].multiple_selection = Some("video") /\ video_mode
     \/ PresetMetadata[key].multiple_selection = Some("image") /\ ~video_mode

\* the selection the toggle is to leave under key k
AfterToggle(sels, k, video_mode) ==
  IF Len(sels[k].selected) > 1 /\ ~PolicyAllows(k, video_mode)
  THEN [selected |-> <<sels[k].selected[1]>>, sequence |-> sels[k].sequence]
  ELSE sels[k]

\* C4: a click on the Video Mode checkbox flips video_mode; every selection
\* holding more than one id whose policy does not allow that under the new
\* video_mode is left holding exactly its former first id, and every other
\* selection is left as it was.
C4_VideoToggleClamps ==
  [][ (inputs' = inputs + 1 /\ event'.kind = "video") =>
        /\ state'.video_mode = ~state.video_mode
        /\ DOMAIN state'.selections = DOMAIN state.selections
        /\ \A k \in DOMAIN state.selections :
             state'.selections[k] = AfterToggle(state.selections, k, state'.video_mode) ]_vars

\* the toggle to video has just clamped the two expressions chosen in image
\* mode to the first of them
C4_Clamped ==
  /\ event.kind = "video" /\ event.idx > 0
  /\ state.video_mode
  /\ state.selections.expressions.selected = <<"smile">>

\* ------------------------------------------------------------ the pose prompt

\* the index of the panel that serves a key
PanelOf(key) == CHOOSE i \in 1..Len(UiPanels) : TrimJson(UiPanels[i].data_source) = key

\* the prompt in which the panel of `key` contributes exactly `entry`
PromptWithEntry(st, manual, iter, key, entry) ==
  GenPanels(Emit(GenPanels("", SubSeq(UiPanels, 1, PanelOf(key) - 1), st, manual, iter),
                 entry),
            SubSeq(UiPanels, PanelOf(key) + 1, Len(UiPanels)), st, manual, iter)

\* the item a selection event names
EventItem(e) == FindItem(PresetItems[e.key], e.id)

\* C5: a single-mode selection of a preset item that carries pose data sets
\* the pose to that item's pose and clears the "manually edited" flag, and
\* the prompt generated then has the item's stored prompt as its "poses" entry.
C5_PresetSelectionReplacesPose ==
  [][ (inputs' = inputs + 1 /\ event'.kind = "select"
       /\ PoseDataOf(EventItem(event')) # None) =>
        /\ state'.pose = PoseDataOf(EventItem(event'))[1]
        /\ ~pose_is_manual'
        /\ \E iter \in IterOrders :
             generated_prompt' =
               PromptWithEntry(state', pose_is_manual', iter, event'.key,
                               EventItem(event')[1].prompt) ]_vars

\* the "wave" preset has just been selected over a manually edited pose
C5_WaveSelectedOverManual ==
  /\ event.kind = "select" /\ event.key = "poses" /\ event.id = "wave"
  /\ event.was_manual
  /\ ~pose_is_manual
  /\ state.pose = WaveFigure

\* a single-mode selection of an item that carries pose data
PoseSelection(e) ==
  /\ e.kind \in {"select", "dropdown"}
  /\ PoseDataOf(EventItem(e)) # None

C7_PromptDeterminism ==
  \A i1 \in IterOrders : \A i2 \in IterOrders :
    Generate(state, pose_is_manual, i1) = Generate(state, pose_is_manual, i2)

\* two groups outside ORDER hold a value each, and settings are emitted
C7_TwoUnorderedGroups ==
  /\ state.options.character_attributes.outfit = "red coat"
  /\ state.options.character_attributes.hat = "straw hat"
  /\ state.video_mode
  /\ \A iter \in IterOrders : generated_prompt = Generate(state, pose_is_manual, iter)

\* ------------------------------------------------------------ prompt in sync

Ratio(a, b) == RDiv(a * 1000, b)

\* BodyMetrics::new
BodyMetrics(p) ==
  [ floor_y    |-> Max2(p.left_ankle[2], p.right_ankle[2]),
    body_h     |-> Max2(Abs(Max2(p.left_ankle[2], p.right_ankle[2]) - p.head[2]), AppScale),
    torso_h    |-> Max2(Abs(p.crotch[2] - p.neck[2]), AppScale),
    shoulder_w |-> Max2(Abs(p.left_shoulder[1] - p.right_shoulder[1]), AppScale),
    neck_y     |-> p.neck[2],
    shoulder_y |-> RDiv(p.left_shoulder[2] + p.right_shoulder[2], 2),
    hip_y      |-> p.crotch[2] ]

\* BodyMetrics::above_floor
AboveFloor(m, y) == m.floor_y - y

\* BodyMetrics::height_frac, in thousandths
HeightFrac(m, y) == Ratio(AboveFloor(m, y), m.body_h)

\* BodyMetrics::foot_raise_desc
FootRaiseDesc(m, ankle_y) ==
  LET h == HeightFrac(m, ankle_y)
  IN IF h > 500 THEN Words(<<"raised", "high", "above", "hip">>)
     ELSE IF h > 320 THEN Words(<<"raised", "to", "hip", "height">>)
     ELSE IF h > 160 THEN Words(<<"raised", "to", "knee", "height">>)
     ELSE Words(<<"slightly", "raised">>)

\* the foot_spread arm taken for a ratio in thousandths
FootSpreadOf(ratio) ==
  IF ratio < 400 THEN Words(<<"feet", "together">>)
  ELSE IF ratio < 900 THEN Words(<<"feet", "hip-width", "apart">>)
  ELSE IF ratio < 1600 THEN Words(<<"feet", "wide", "apart">>)
  ELSE Words(<<"feet", "very", "wide", "apart">>)

\* BodyMetrics::foot_spread
FootSpread(m, left_ankle_x, right_ankle_x) ==
  FootSpreadOf(Ratio(Abs(left_ankle_x - right_ankle_x), m.shoulder_w))

\* norm of semantics.rs: mag(a).max(1e-6) leaves the zero vector zero
SemNorm(a) == IF VLen(a) = 0 THEN <<0, 0, 0>> ELSE VScale(a, UnitScale, VLen(a))

\* angle_at, in hundredths of a degree
AngleAt(a, b, c) ==
  AcosDeg(Clamp(VDot(SemNorm(VSub(a, b)), SemNorm(VSub(c, b))), -UnitScale, UnitScale))

\* tan(65 degrees), UnitScale for 1.0
Tan65 == 21445

\* raised_foot_dir.  The two atan2 angles are compared through the
\* components they are taken of: elev >= 65 is up >= tan(65) * h_mag (up > 0
\* when the horizontal part vanishes), 45 < h_angle < 135 is lat > |fwd|, and
\* |h_angle| < 45 is fwd > |lat| (atan2(0, 0) is 0).
RaisedFootDir(hip, ankle, sign) ==
  LET ha   == VSub(ankle, hip)
      fwd  == ha[3]
      lat  == ha[1] * sign
      up   == -ha[2]
      hmag == Isqrt(fwd * fwd + lat * lat)
      high == IF hmag = 0 THEN up > 0 ELSE up * UnitScale >= Tan65 * hmag
  IN IF high THEN <<>>
     ELSE IF lat > Abs(fwd) THEN <<" ">> \o Words(<<"to", "the", "side">>)
     ELSE IF fwd > Abs(lat) \/ (fwd = 0 /\ lat = 0) THEN <<" ", "forward">>
     ELSE <<" ", "behind">>

\* ------------------------------------------------------------ semantics.rs: stance

\* a height test that no body passes
NeverLying(m) == FALSE

\* `m.body_h < 80.0`
LyingHeight(m) == m.body_h < 80 * AppScale

\* the lying arm of stance
StanceLying(p, m) ==
  IF Abs(p.head[1] - p.crotch[1]) * 100 > m.body_h * 40
  THEN Words(<<"lying", "on", IF p.head[1] < p.crotch[1] THEN "left" ELSE "right", "side">>)
  ELSE Words(<<"lying", "face", IF p.head[3] <= p.crotch[3] THEN "up" ELSE "down">>)

\* knee angle of one leg, and the tests on it
KneeAngle(p, side) ==
  IF side = "left" THEN AngleAt(p.crotch, p.left_knee, p.left_ankle)
  ELSE AngleAt(p.crotch, p.right_knee, p.right_ankle)

Bent(p, side) == KneeAngle(p, side) < 120 * DegScale

ShinDown(p, side) ==
  IF side = "left" THEN p.left_ankle[2] > p.left_knee[2] + 20 * AppScale
  ELSE p.right_ankle[2] > p.right_knee[2] + 20 * AppScale

ShinBack(p, side) ==
  IF side = "left" THEN p.left_ankle[3] > p.left_knee[3] + 20 * AppScale
  ELSE p.right_ankle[3] > p.right_knee[3] + 20 * AppScale

\* stance, both knees bent
StanceBothBent(p, m) ==
  LET crotch_h == HeightFrac(m, p.crotch[2])
      knee_z   == RDiv(p.left_knee[3] + p.right_knee[3], 2)
      vert     == Max2(Abs(p.crotch[2] - p.neck[2]), AppScale)
  IN IF (ShinBack(p, "left") \/ ShinBack(p, "right")) /\ crotch_h < 500
     THEN (IF (p.neck[3] - p.crotch[3]) * 100 < -(vert * 30)
           THEN <<"kneeling", ", ">> \o Words(<<"torso", "leaning", "forward">>)
           ELSE <<"kneeling">>)
     ELSE IF ShinDown(p, "left") /\ ShinDown(p, "right") /\ p.left_ankle[1] > p.right_ankle[1]
     THEN Words(<<"seated", "cross-legged">>)
     ELSE IF /\ ShinDown(p, "left") /\ ShinDown(p, "right")
             /\ (p.crotch[3] - knee_z > 20 * AppScale \/ crotch_h > 380)
     THEN (IF crotch_h > 520 THEN <<"perched", ", ">> \o Words(<<"seated", "on", "edge">>)
           ELSE <<"seated">>)
     ELSE IF crotch_h < 220 THEN Words(<<"deep", "squat">>)
     ELSE IF crotch_h < 320 THEN <<"squat">>
     ELSE Words(<<"half", "squat">>)

\* stance, one foot off the ground: "balancing on {other} leg, {side} foot {h}{dir}"
Balancing(p, m, side) ==
  LET ankle == IF side = "left" THEN p.left_ankle ELSE p.right_ankle
      other == IF side = "left" THEN "right" ELSE "left"
      sign  == IF side = "left" THEN -1 ELSE 1
  IN Words(<<"balancing", "on", other, "leg">>) \o <<", ">> \o Words(<<side, "foot">>)
       \o <<" ">> \o FootRaiseDesc(m, ankle[2]) \o RaisedFootDir(p.crotch, ankle, sign)

\* `l_raised > raise_threshold && r_raised < raise_threshold / 2.0`, in
\* hundredths of a tick
Raised(m, up_y, down_y) ==
  /\ AboveFloor(m, up_y) * 100 > m.body_h * 8
  /\ AboveFloor(m, down_y) * 100 < m.body_h * 4

\* the splits and tip-toe tests, then "standing, {spread}"
StanceUpright(p, m) ==
  LET crotch_h  == HeightFrac(m, p.crotch[2])
      lat_ratio == Ratio(Abs(p.left_ankle[1] - p.right_ankle[1]), m.shoulder_w)
      sag_ratio == Ratio(Abs(p.left_ankle[3] - p.right_ankle[3]), m.shoulder_w)
      l_frac    == HeightFrac(m, p.left_ankle[2])
      r_frac    == HeightFrac(m, p.right_ankle[2])
      spread    == FootSpread(m, p.left_ankle[1], p.right_ankle[1])
  IN IF crotch_h < 320 /\ lat_ratio >= 1600
     THEN Words(<<"doing", "the", "side", "splits">>)
     ELSE IF crotch_h < 320 /\ sag_ratio >= 1600
     THEN Words(<<"doing", "the", "forward", "splits">>) \o <<", ">>
            \o Words(<<IF p.left_ankle[3] < p.right_ankle[3] THEN "left" ELSE "right",
                       "leg", "forward">>)
     ELSE IF l_frac > 60 /\ r_frac > 60 /\ Abs(l_frac - r_frac) < 60
     THEN Words(<<"standing", "on", "tip-toe">>) \o <<", ">> \o spread
     ELSE <<"standing", ", ">> \o spread

\* stance
Stance(p, m) ==
  IF LyingHeight(m) THEN StanceLying(p, m)
  ELSE IF Bent(p, "left") /\ Bent(p, "right") THEN StanceBothBent(p, m)
  ELSE IF Bent(p, "left")
  THEN (IF ShinBack(p, "left") THEN Words(<<"kneeling", "on", "left", "knee">>)
        ELSE Words(<<"left", "knee", "raised">>))
  ELSE IF Bent(p, "right")
  THEN (IF ShinBack(p, "right") THEN Words(<<"kneeling", "on", "right", "knee">>)
        ELSE Words(<<"right", "knee", "raised">>))
  ELSE IF Raised(m, p.left_ankle[2], p.right_ankle[2]) THEN Balancing(p, m, "left")
  ELSE IF Raised(m, p.right_ankle[2], p.left_ankle[2]) THEN Balancing(p, m, "right")
  ELSE StanceUpright(p, m)

\* ------------------------------------------------------------ semantics.rs: arms

\* "{side} arm {what}"
ArmIs(side, what) == Words(<<side, "arm">> \o what)

\* the (left prefix, right prefix, combined) rows arms hands to symmetrize_prefix
CollapseRow(what, combined) ==
  <<ArmIs("left", what), ArmIs("right", what), Words(<<"arms">> \o combined)>>

\* the same, for a phrase whose last word continues without a space
CollapseRowTail(what, tail) ==
  << ArmIs("left", what) \o <<tail>>, ArmIs("right", what) \o <<tail>>,
     Words(<<"arms">> \o what) \o <<tail>> >>

CollapseTable ==
  << CollapseRow(<<"at", "side">>, <<"at", "sides">>),
     CollapseRow(<<"raised", "overhead">>, <<"raised", "overhead">>),
     CollapseRow(<<"raised">>, <<"raised">>),
     CollapseRow(<<"slightly", "raised">>, <<"slightly", "raised">>),
     CollapseRow(<<"extended", "forward">>, <<"extended", "forward">>),
     CollapseRowTail(<<"extended", "forward">>, "-outward"),
     CollapseRow(<<"reaching", "forward">>, <<"reaching", "forward">>),
     CollapseRow(<<"pointing", "forward">>, <<"pointing", "forward">>),
     CollapseRow(<<"outstretched", "sideways">>, <<"outstretched", "sideways">>),
     CollapseRow(<<"crossed">>, <<"crossed">>),
     CollapseRow(<<"behind", "back">>, <<"behind", "back">>),
     CollapseRow(<<"slightly", "behind">>, <<"slightly", "behind">>),
     CollapseRow(<<"resting", "against", "body">>, <<"resting", "at", "sides">>) >>

\* Option<String>::as_deref().unwrap_or("")
UnwrapOrEmpty(opt) == IF opt = None THEN <<>> ELSE opt[1]

\* `l[lp.len()..].trim()`
SuffixAfter(text, prefix) == Trim(SubSeq(text, Len(prefix) + 1, Len(text)))

\* the value symmetrize_prefix returns from a row whose prefixes match
Collapsed(l, r, row) ==
  IF SuffixAfter(l, row[1]) = SuffixAfter(r, row[2]) /\ SuffixAfter(l, row[1]) # <<>>
  THEN row[3] \o <<" ">> \o SuffixAfter(l, row[1])
  ELSE row[3]

RECURSIVE FirstMatch(_, _, _)
\* the loop of symmetrize_prefix over the rows, first match wins
FirstMatch(l, r, pairs) ==
  IF pairs = <<>> THEN None
  ELSE IF StartsWith(l, pairs[1][1]) /\ StartsWith(r, pairs[1][2])
  THEN Some(Collapsed(l, r, pairs[1]))
  ELSE FirstMatch(l, r, Tail(pairs))

\* symmetrize_prefix
SymmetrizePrefix(left, right, pairs) ==
  FirstMatch(UnwrapOrEmpty(left), UnwrapOrEmpty(right), pairs)

\* the end of arms, once no detector for both arms has returned: the two
\* describe_arm results are collapsed or joined
ArmsOf(left, right) ==
  IF SymmetrizePrefix(left, right, CollapseTable) # None
  THEN SymmetrizePrefix(left, right, CollapseTable)
  ELSE IF left = None /\ right = None THEN None
  ELSE IF right = None THEN left
  ELSE IF left = None THEN right
  ELSE Some(left[1] \o <<", ">> \o right[1])

\* arms: `detected` is what the detectors for both arms return (None when
\* none fires), left and right what describe_arm returns for each arm
Arms(detected, left, right) ==
  IF detected # None THEN detected ELSE ArmsOf(left, right)

\* ------------------------------------------------------------ semantics.rs: describe

\* parts.push(s) for `if let Some(s)`
PushSome(parts, opt) == IF opt = None THEN parts ELSE Append(parts, opt[1])

\* describe: c.pose is the Pose; c.lean, c.twist, c.shift, c.head and c.legs are
\* what torso_lean, torso_twist, weight_shift, head_orient and legs return
\* for it, c.detected, c.left and c.right what arms computes from
DescribeText(c) ==
  LET stance_str == Stance(c.pose, BodyMetrics(c.pose))
      is_lying   == StartsWith(stance_str, <<"lying">>)
      p1 == <<stance_str>>
      p2 == IF is_lying THEN p1 ELSE PushSome(PushSome(p1, c.lean), c.twist)
      p3 == PushSome(PushSome(p2, c.shift), c.head)
      p4 == PushSome(PushSome(p3, Arms(c.detected, c.left, c.right)), c.legs)
  IN JoinText(p4, <<", ">>)

\* ------------------------------------------------------------ describe alone

\* `gi.to_pose(cx, cy, 40.0)`: pixels per head size
PoseScale == 40

\* a segment of the skeleton in ticks of the canvas
SegPx(name) == Segments[name] * PoseScale * AppScale

\* A leg as the two vectors crotch -> knee and knee -> ankle, x counted
\* outward from the body; each vector has the length of its bone.
LegShape(thigh, shin) == [thigh |-> thigh, shin |-> shin]
StraightLeg(d) == LegShape(d, d)

LegShapes ==
  { StraightLeg(<<0, 800, 0>>),        \* straight down
    StraightLeg(<<50, 798, 0>>),       \* straight, a little outward
    StraightLeg(<<0, 798, 50>>),       \* straight, a little backward
    StraightLeg(<<128, 790, 0>>),
    StraightLeg(<<224, 768, 0>>),
    StraightLeg(<<768, 224, 0>>),      \* spread sideways, near the floor
    StraightLeg(<<0, 224, -768>>),     \* spread forward
    StraightLeg(<<0, 224, 768>>),      \* spread backward
    StraightLeg(<<0, 480, -640>>),     \* lifted forward
    StraightLeg(<<0, 0, 800>>),        \* flat on the floor
    LegShape(<<0, 0, -800>>, <<0, 800, 0>>),     \* knee up, shin down
    LegShape(<<0, 800, 0>>, <<0, 0, 800>>),      \* on the knee, shin back
    LegShape(<<0, 224, -768>>, <<0, 800, 0>>) }  \* crouched

\* The spine, head and shoulders as offsets from the crotch.
TorsoShape(neck, head, shoulder) == [neck |-> neck, head |-> head, shoulder |-> shoulder]

TorsoShapes ==
  { TorsoShape(<<0, -1200, 0>>, <<0, -1600, 0>>, <<400, 0, 0>>),    \* upright
    TorsoShape(<<-1200, 0, 0>>, <<-1600, 0, 0>>, <<0, 0, 400>>),    \* flat, head to the left
    TorsoShape(<<1200, 0, 0>>, <<1600, 0, 0>>, <<0, 0, 400>>),      \* flat, head to the right
    TorsoShape(<<0, 0, -1200>>, <<0, 0, -1600>>, <<400, 0, 0>>),    \* flat, head to the viewer
    TorsoShape(<<0, 0, 1200>>, <<0, 0, 1600>>, <<400, 0, 0>>) }     \* flat, head into the scene

MirrorX(v) == <<-v[1], v[2], v[3]>>

\* the Pose with the crotch at c, the given torso and the given legs; the
\* arms hang from the shoulders
BuildPose(c, torso, left, right) ==
  LET neck == VAdd(c, torso.neck)
      ls   == VSub(neck, torso.shoulder)
      rs   == VAdd(neck, torso.shoulder)
      lk   == VAdd(c, MirrorX(left.thigh))
      rk   == VAdd(c, right.thigh)
  IN [ head |-> VAdd(c, torso.head), neck |-> neck,
       left_shoulder |-> ls, right_shoulder |-> rs,
       left_elbow |-> VAdd(ls, <<0, 800, 0>>), right_elbow |-> VAdd(rs, <<0, 800, 0>>),
       left_wrist |-> VAdd(ls, <<0, 1600, 0>>), right_wrist |-> VAdd(rs, <<0, 1600, 0>>),
       waist |-> VAdd(c, VScale(torso.neck, 1, 3)), crotch |-> c,
       left_knee |-> lk, right_knee |-> rk,
       left_ankle |-> VAdd(lk, MirrorX(left.shin)), right_ankle |-> VAdd(rk, right.shin) ]

\* the poses describe is called with
SemPoses ==
  { BuildPose(<<4000, 3000, 0>>, t, l, r) : t \in TorsoShapes, l \in LegShapes, r \in LegShapes }

\* what the other classifiers of describe return: nothing, or a phrase each
NoPhrases ==
  [ lean |-> None, twist |-> None, shift |-> None, head |-> None, legs |-> None,
    detected |-> None, left |-> None, right |-> None ]

AllPhrases ==
  [ lean |-> Some(Words(<<"leaning", "forward">>)),
    twist |-> Some(Words(<<"torso", "twisted", "left">>)),
    shift |-> Some(Words(<<"weight", "on", "left", "leg">>)),
    head |-> Some(Words(<<"head", "tilted", "down">>)),
    legs |-> Some(Words(<<"legs", "in", "stride">>)),
    detected |-> None,
    left |-> Some(ArmIs("left", <<"at", "side">>)),
    right |-> Some(ArmIs("right", <<"at", "side">>)) ]

DescribeCall(p, o) ==
  [ fn |-> "describe", pose |-> p, lean |-> o.lean, twist |-> o.twist, shift |-> o.shift,
    head |-> o.head, legs |-> o.legs, detected |-> o.detected, left |-> o.left,
    right |-> o.right ]

DescribeCalls == { DescribeCall(p, o) : p \in SemPoses, o \in {NoPhrases, AllPhrases} }

\* body-level names BodyMetrics::level_name gives a wrist
Levels == { Words(<<"at", "chest", "level">>), Words(<<"at", "waist", "level">>) }

\* what describe_arm can say of one arm
ArmPhrases(side) ==
  { ArmIs(side, w) :
      w \in { <<"at", "side">>, <<"overhead">>, <<"overhead", "forward">>, <<"raised">>,
              <<"raised", "to", "the", "side">>, <<"slightly", "raised">>,
              <<"slightly", "raised", "forward">>, <<"crossed">>, <<"pointing", "up">>,
              <<"pointing", "behind">>, <<"behind", "back">>, <<"slightly", "behind">> } }
  \cup { ArmIs(side, w) \o <<" ">> \o lv :
           w \in { <<"pointing", "forward">>, <<"pointing", "sideways">>,
                   <<"extended", "forward">>, <<"reaching", "forward">>,
                   <<"outstretched", "sideways">>, <<"resting", "against", "body">> },
           lv \in Levels }
  \cup { ArmIs(side, <<"extended", "forward">>) \o <<"-outward", " ">> \o lv : lv \in Levels }
  \cup { Words(<<side, "hand", "at", "chin">>),
         ArmIs(side, <<"bent">>) \o <<" ">> \o Words(<<"elbow", "out">>) \o <<", ">>
           \o Words(<<"hand", "at", "abdomen">>) }

ArmResults(side) == {None} \cup { Some(t) : t \in ArmPhrases(side) }

\* what the detectors for both arms return
Detections == { None, Some(Words(<<"hands", "on", "hips">>)) }

ArmsCalls ==
  { [fn |-> "arms", detected |-> d, left |-> l, right |-> r] :
      d \in Detections, l \in ArmResults("left"), r \in ArmResults("right") }

InitDescribe ==
  /\ PoseIdle /\ FabIdle /\ AppIdle
  /\ call \in DescribeCalls \cup ArmsCalls
  /\ ret = None

\* describe(&pose)
CallDescribe ==
  /\ call.fn = "describe" /\ ret = None
  /\ ret' = Some(DescribeText(call))
  /\ UNCHANGED <<call, posevars, fabvars, appvars>>

\* arms(&pose, &m)
CallArms ==
  /\ call.fn = "arms" /\ ret = None
  /\ ret' = Some(Arms(call.detected, call.left, call.right))
  /\ UNCHANGED <<call, posevars, fabvars, appvars>>

NextDescribe == CallDescribe \/ CallArms

SpecDescribe == InitDescribe /\ [][NextDescribe]_vars

\* ------------------------------------------------------------ stance of a pose

\* bound on what counts as a straight knee, in hundredths of a degree
StraightTol == 100

\* the height of the skeleton standing on straight legs
StandingHeight ==
  SegPx("thigh") + SegPx("shin") + SegPx("torso_lower") + SegPx("torso_upper") + SegPx("neck")

\* normal standing height: the head is at least nine tenths of the standing
\* skeleton's height above the floor
NormalHeight(m) == m.body_h * 10 >= StandingHeight * 9

StraightKnees(p) ==
  /\ KneeAngle(p, "left") >= 180 * DegScale - StraightTol
  /\ KneeAngle(p, "right") >= 180 * DegScale - StraightTol

FeetOnFloor(p, m) == AboveFloor(m, p.left_ankle[2]) = 0 /\ AboveFloor(m, p.right_ankle[2]) = 0

FeetClose(p, m) == Ratio(Abs(p.left_ankle[1] - p.right_ankle[1]), m.shoulder_w) < 400

StandingCase(p) ==
  /\ NormalHeight(BodyMetrics(p)) /\ StraightKnees(p)
  /\ FeetOnFloor(p, BodyMetrics(p)) /\ FeetClose(p, BodyMetrics(p))

Described == call.fn = "describe" /\ ret # None

\* |max(left_ankle.y, right_ankle.y) - head.y| is below 80
HeightBelow80(p) == Abs(Max2(p.left_ankle[2], p.right_ankle[2]) - p.head[2]) < 80 * AppScale

\* C11: describe of a pose whose body height is below 80 begins with "lying",
\* and describe of a pose of normal standing height with both knees straight,
\* both ankles on the floor and the ankles closer in x than 40% of the
\* shoulder width contains "standing".
C11_StanceClassification ==
  Described =>
    /\ HeightBelow80(call.pose) => StartsWith(ret[1], <<"lying">>)
    /\ StandingCase(call.pose) => HasWord(ret[1], "standing")

\* a standing pose has been described
C11_StandingDescribed ==
  Described /\ StandingCase(call.pose) /\ HasWord(ret[1], "standing")

\* ------------------------------------------------------------ collapse of the arms

\* arms has run with no detector for both arms firing
ArmsClassified == call.fn = "arms" /\ ret # None /\ call.detected = None

\* the combined phrase of a row, followed by the suffix the two phrases share
\* after the row's prefixes when that suffix is the same and not empty
CombinedOf(l, r, row) ==
  IF SuffixAfter(l, row[1]) = SuffixAfter(r, row[2]) /\ SuffixAfter(l, row[1]) # <<>>
  THEN Flat(row[3]) \o " " \o Flat(SuffixAfter(l, row[1]))
  ELSE Flat(row[3])

\* the row's prefixes start the two phrases
RowApplies(l, r, row) == StartsWith(l, row[1]) /\ StartsWith(r, row[2])

\* C12: when no detector for both arms fires, "left arm at side" and "right
\* arm at side" give exactly "arms at sides"; and for every row of the
\* collapse table, two phrases that start with the row's prefixes give the
\* row's combined phrase, followed by their common suffix only when the two
\* suffixes are the same and not empty.
C12_SymmetricCollapse ==
  ArmsClassified =>
    /\ ( /\ call.left = Some(ArmIs("left", <<"at", "side">>))
         /\ call.right = Some(ArmIs("right", <<"at", "side">>)) )
       => ret[1] # None /\ Flat(ret[1][1]) = "arms at sides"
    /\ \A i \in 1..Len(CollapseTable) :
         RowApplies(UnwrapOrEmpty(call.left), UnwrapOrEmpty(call.right), CollapseTable[i])
         => /\ ret[1] # None
            /\ Flat(ret[1][1]) = CombinedOf(UnwrapOrEmpty(call.left), UnwrapOrEmpty(call.right),
                                            CollapseTable[i])

\* both arms reach forward and outward at chest level, and the segment reads
\* "forward -outward"
C12_OutwardCutOff ==
  /\ ArmsClassified
  /\ call.left = Some(ArmIs("left", <<"extended", "forward">>) \o <<"-outward", " ">>
                        \o Words(<<"at", "chest", "level">>))
  /\ call.right = Some(ArmIs("right", <<"extended", "forward">>) \o <<"-outward", " ">>
                         \o Words(<<"at", "chest", "level">>))
  /\ ret[1] # None
  /\ Flat(ret[1][1]) = "arms extended forward -outward at chest level"

\* ------------------------------------------------------------ json_loader.rs: assets

\* Result<T, String>
Ok(v) == <<"Ok", v>>
Err(e) == <<"Err", e>>
IsOk(r) == r[1] = "Ok"

\* the names matched by asset
Embedded ==
  { "ui_config.json", "character_attributes.json", "clothing.json", "styles.json",
    "motion.json", "global.json", "poses.json", "expressions.json", "environments.json",
    "skeleton.json" }

\* include_str!("../assets/{name}"): the text of the file, kept symbolic
IncludeStr(name) == <<"../assets/", name>>

\* the message of asset's last arm
NotEmbedded(name) ==
  << "Asset '", name, "' not embedded. Add it to json_loader.rs asset() to embed at compile time." >>

\* a lookup that finds a file for every name
AssetAny(name) == Ok(IncludeStr(name))

\* asset
Asset(name) == IF name \in Embedded THEN Ok(IncludeStr(name)) ELSE Err(NotEmbedded(name))

\* serde_json::from_str::<T>(text).map_err(..): `fits` tells whether the text
\* deserialises into the type asked for; the value is kept symbolic
FromStr(text, name, fits) ==
  IF fits THEN Ok(<<"value of">> \o text)
  ELSE Err(<<"Parse error in ", name, ": ", "serde_json::Error">>)

\* load
Load(name, fits) ==
  IF IsOk(Asset(name)) THEN FromStr(Asset(name)[2], name, fits) ELSE Asset(name)

\* load_or_warn: the value, and what it prints to stderr
LoadOrWarn(name, fits) ==
  IF IsOk(Load(name, fits)) THEN [value |-> Some(Load(name, fits)[2]), stderr |-> <<>>]
  ELSE [value |-> None, stderr |-> <<"Warning: ">> \o Load(name, fits)[2]]

\* ------------------------------------------------------------ loading alone

\* names a caller may ask for: the embedded ones and some that are not
AskedNames ==
  Embedded \cup { "saves.json", "theme.json", "hair.json", "poses", "Poses.json",
                  "ui_config", "skeleton.JSON", "" }

LoadCalls ==
  { [fn |-> f, name |-> nm, fits |-> b] :
      f \in {"load", "load_or_warn"}, nm \in AskedNames, b \in BOOLEAN }

InitLoad ==
  /\ PoseIdle /\ FabIdle /\ AppIdle
  /\ call \in LoadCalls
  /\ ret = None

\* json_loader::load::<T>(name)
CallLoad ==
  /\ call.fn = "load" /\ ret = None
  /\ ret' = Some(Load(call.name, call.fits))
  /\ UNCHANGED <<call, posevars, fabvars, appvars>>

\* load_or_warn::<T>(name)
CallLoadOrWarn ==
  /\ call.fn = "load_or_warn" /\ ret = None
  /\ ret' = Some(LoadOrWarn(call.name, call.fits))
  /\ UNCHANGED <<call, posevars, fabvars, appvars>>

NextLoad == CallLoad \/ CallLoadOrWarn

SpecLoad == InitLoad /\ [][NextLoad]_vars

\* ------------------------------------------------------------ the asset registry

\* the ten registered names
Registered ==
  { "ui_config.json", "character_attributes.json", "clothing.json", "styles.json",
    "motion.json", "global.json", "poses.json", "expressions.json", "environments.json",
    "skeleton.json" }

\* r is an error value that names the asset as not registered
NamesMissing(r, name) ==
  r[1] = "Err" /\ r[2][1] = "Asset '" /\ r[2][2] = name /\ Len(r[2]) = 3

\* C13: load resolves exactly the ten registered names: for each of them the
\* embedded text is found (and the outcome is the parse of that text), and for
\* every other name load returns an error value that names the missing
\* registration, returns no content, and load_or_warn yields no value.
C13_RegistryClosure ==
  /\ (call.fn = "load" /\ ret # None) =>
       /\ ret[1][1] \in {"Ok", "Err"}
       /\ call.name \in Registered => ~NamesMissing(ret[1], call.name)
       /\ (call.name \in Registered /\ call.fits) => ret[1] = Ok(<<"value of", "../assets/", call.name>>)
       /\ call.name \notin Registered => NamesMissing(ret[1], call.name)
  /\ (call.fn = "load_or_warn" /\ ret # None /\ call.name \notin Registered) =>
       /\ ret[1].value = None
       /\ ret[1].stderr = <<"Warning: ">> \o NotEmbedded(call.name)

\* a name outside the registry has been asked for and refused
C13_UnregisteredRefused ==
  /\ call.fn = "load" /\ ret # None
  /\ call.name = "saves.json" /\ call.fits
  /\ NamesMissing(ret[1], "saves.json")

\* ------------------------------------------------------------ names of saves

\* the text is empty or made of spaces only
IsBlank(text) == \A i \in 1..Len(text) : text[i] = " "

\* the text is not empty and neither starts nor ends with a space
ProperName(text) == text # <<>> /\ text[1] # " " /\ text[Len(text)] # " "

\* the save dialog is open on an empty or whitespace-only name
BlankDialog == save_dialog # None /\ IsBlank(save_dialog[1])

CX == 400
CY == 539

\* Pose::new_anatomical(CX, CY); the function is kept symbolic
NewAnatomical == <<"Pose::new_anatomical", CX, CY>>

\* A preset library as startup finds it: `loaded` tells whether load_or_warn
\* returned it, items are its PresetItems, dflt its "default" id (None when
\* the file declares none).
PresetLibrary(loaded, items, dflt) == [loaded |-> loaded, items |-> items, dflt |-> dflt]

\* load_preset_library, the selection it inserts: the default id when the
\* library is loaded and lists an item with that id
StartSelection(lib) ==
  IF lib.loaded /\ lib.dflt # None /\ FindItem(lib.items, lib.dflt[1]) # None
  THEN Some([selected |-> <<lib.dflt[1]>>, sequence |-> <<>>])
  ELSE None

\* the body of the find_map closure for one key of selections
StartPoseOf(lib) ==
  IF StartSelection(lib) = None THEN None
  ELSE PoseDataOf(FindItem(lib.items, StartSelection(lib)[1].selected[1]))

RECURSIVE FindMapPose(_, _)
\* selections.iter().find_map(..): order is the order the map yields its keys in
FindMapPose(libs, order) ==
  IF order = <<>> THEN None
  ELSE IF StartPoseOf(libs[Head(order)]) # None THEN StartPoseOf(libs[Head(order)])
  ELSE FindMapPose(libs, Tail(order))

\* default_pose of Default::default(): `.unwrap_or_else(|| Pose::new_anatomical(CX, CY))`,
\* then normalize_pose
StartDefaultPose(libs, order) ==
  IF FindMapPose(libs, order) = None THEN NewAnatomical
  ELSE NormalizePose(FindMapPose(libs, order)[1])

\* Default::default(), as far as the pose goes: the outcome is an application
\* that has started.  No statement of the function ends the process.
AppDefault(libs, order) ==
  [ kind |-> "started",
    default_pose |-> StartDefaultPose(libs, order),
    pose |-> StartDefaultPose(libs, order),
    selected |-> [k \in DOMAIN libs |-> StartSelection(libs[k])] ]

\* ------------------------------------------------------------ startup alone

\* the items of a library without any stick figure
WithoutFigures(items) == [i \in 1..Len(items) |-> [items[i] EXCEPT !.pose_data = None]]

PosesLibraries ==
  { PresetLibrary(l, it, d) :
      l \in BOOLEAN,
      it \in { PresetItems.poses, WithoutFigures(PresetItems.poses), <<>> },
      d \in { None, Some("standing"), Some("wave"), Some("portrait"), Some("sitting") } }

StylesLibraries ==
  { PresetLibrary(l, PresetItems.styles, Some("photo")) : l \in BOOLEAN }

\* orders in which the selections map may yield its keys
KeyOrders == { <<"poses", "styles">>, <<"styles", "poses">> }

StartupCalls ==
  { [fn |-> "default", libs |-> [poses |-> p, styles |-> st], order |-> o] :
      p \in PosesLibraries, st \in StylesLibraries, o \in KeyOrders }

InitStartup ==
  /\ PoseIdle /\ FabIdle /\ AppIdle
  /\ call \in StartupCalls
  /\ ret = None

\* PromptPuppetApp::default()
CallDefault ==
  /\ call.fn = "default" /\ ret = None
  /\ ret' = Some(AppDefault(call.libs, call.order))
  /\ UNCHANGED <<call, posevars, fabvars, appvars>>

NextStartup == CallDefault

SpecStartup == InitStartup /\ [][NextStartup]_vars

\* ------------------------------------------------------------ the default pose

\* the configured default item of the library carries stick-figure geometry
DefaultHasFigure(lib) ==
  /\ lib.loaded /\ lib.dflt # None
  /\ \E i \in 1..Len(lib.items) :
       lib.items[i].id = lib.dflt[1] /\ lib.items[i].pose_data # None

\* no default selection resolves to an item with pose data
NoDefaultFigure(libs) == \A k \in DOMAIN libs : ~DefaultHasFigure(libs[k])

\* C15: when no preset library's configured default item carries
\* stick-figure geometry, construction aborts with an explicit message
\* instead of starting with some other pose.
C15_NoDefaultPoseFatal ==
  (call.fn = "default" /\ ret # None /\ NoDefaultFigure(call.libs))
    => ret[1].kind = "abort"

\* the application has started on the fallback pose
C15_StartedOnFallback ==
  /\ call.fn = "default" /\ ret # None /\ NoDefaultFigure(call.libs)
  /\ ret[1].kind = "started" /\ ret[1].default_pose = NewAnatomical

\* ------------------------------------------------------------ Reset Pose

\* the step is a frame in which Reset Pose was clicked
ResetStep == inputs' = inputs + 1 /\ event'.kind = "reset"

\* the fields of the AppState other than the pose
OtherFields(st) ==
  <<st.options, st.settings, st.selections, st.video_mode, st.custom_data>>

\* C16: after any sequence of drags, selections and loads, Reset Pose sets
\* the pose of the AppState to the default pose computed at startup; the
\* stored default pose is never modified; and Reset Pose changes no other
\* field of the AppState.
C16_ResetPose ==
  [][ /\ default_pose' = default_pose /\ default_pose = DefaultPose
      /\ ResetStep =>
           /\ state'.pose = DefaultPose
           /\ OtherFields(state') = OtherFields(state) ]_vars

\* Reset Pose has put the default pose back after the "wave" preset had
\* replaced it; the selection is still "wave"
C16_ResetAfterWave ==
  /\ event.kind = "reset"
  /\ state.pose = DefaultPose
  /\ state.selections.poses.selected = <<"wave">>
  /\ OtherFields(state) # OtherFields(DefaultState)

\* ------------------------------------------------------------ the shoulder bar

\* the rounding of one fixed-point midpoint, in ticks
CentreTol == 2

\* the neck is the midpoint of the two shoulders
NeckCentred(p) == JointWithin(p.neck, MidPoint(p.left_shoulder, p.right_shoulder), CentreTol)

\* C17: in every pose to_pose produces, and in every pose reached from one by
\* any sequence of move_joint_constrained calls, the neck is the midpoint of
\* left_shoulder and right_shoulder in x, y and z.
C17_ShoulderBarCentred == NeckCentred(pose)

\* a shoulder has been dragged, the neck has left every place to_pose put it
\* and is still the midpoint
C17_NeckFollowedShoulder ==
  /\ lastJoint \in {"left_shoulder", "right_shoulder"}
  /\ \A p \in LoadedPoses : ~JointWithin(pose.neck, p.neck, 100)
  /\ NeckCentred(pose)

\* ------------------------------------------------------------ json_loader.rs: libraries

\* default_include_prompt
DefaultIncludePrompt == "always"

\* #[serde(default = "default_include_prompt")]: the declared text, or the
\* default when the file declares none
IncludePromptOf(declared) == IF declared = None THEN DefaultIncludePrompt ELSE declared[1]

\* OptionCategory::should_show
ShouldShow(cat, data) ==
  IF cat.visibility = None THEN TRUE
  ELSE CASE cat.visibility[1].condition = "field_equals" ->
              (cat.visibility[1].value = None
                 \/ OptGet(data, cat.visibility[1].field) = cat.visibility[1].value[1])
         [] cat.visibility[1].condition = "field_in" ->
              Contains(cat.visibility[1].values, OptGet(data, cat.visibility[1].field))
         [] cat.visibility[1].condition = "field_not_equals" ->
              (cat.visibility[1].value = None
                 \/ OptGet(data, cat.visibility[1].field) # cat.visibility[1].value[1])
         [] OTHER -> TRUE

\* ------------------------------------------------------------ generating alone

\* what include_prompt a library file may declare
DeclaredPolicies == {None, Some("always"), Some("video"), Some("image")}

\* the visibility a library may declare for its "hair" category
VisibilityRules ==
  { None,
    Some([condition |-> "field_equals", field |-> "age", value |-> Some("adult"),
          values |-> <<>>]),
    Some([condition |-> "field_equals", field |-> "age", value |-> None, values |-> <<>>]),
    Some([condition |-> "field_in", field |-> "age", value |-> None,
          values |-> <<"adult", "elderly">>]),
    Some([condition |-> "field_not_equals", field |-> "age", value |-> Some("adult"),
          values |-> <<>>]) }

\* the categories of an options library, in declared order
GridCategories(rule) ==
  << [id |-> "outfit", group |-> Some("Wardrobe"), visibility |-> None],
     [id |-> "hat", group |-> Some("Accessories"), visibility |-> None],
     [id |-> "body", group |-> Some("Body Details"), visibility |-> None],
     [id |-> "eyes", group |-> Some("Facial Features"), visibility |-> None],
     [id |-> "age", group |-> Some("Basic Info"), visibility |-> None],
     [id |-> "hair", group |-> Some("Physical Features"), visibility |-> rule],
     [id |-> "build", group |-> None, visibility |-> None],
     [id |-> "scar", group |-> Some("Facial Features"), visibility |-> None] >>

\* an OptionsLibrary as serde builds it
GridLibrary(declared, rule) ==
  [include_prompt |-> IncludePromptOf(declared), categories |-> GridCategories(rule)]

\* the libraries a call may find: the policies without a rule, the rules
\* without a declared policy
GridLibraries ==
  { GridLibrary(d, None) : d \in DeclaredPolicies }
    \cup { GridLibrary(None, r) : r \in VisibilityRules }

\* the values the panel's options may hold
GridData ==
  [ outfit : {"None", "red coat"}, hat : {"", "straw hat"}, body : {"None", "slim"},
    eyes : {"None", "green eyes"}, age : {"None", "adult", "elderly"},
    hair : {"None", "long hair"}, build : {"", "tall"}, scar : {"None", "scarred"} ]

\* the text generate has already written when it comes to the panel
Outs == {"", "photorealistic\n\n"}

OptionsCalls ==
  [ fn : {"options_grid"}, out : Outs, lib : {None} \cup { Some(l) : l \in GridLibraries },
    data : {None} \cup { Some(d) : d \in GridData }, video_mode : BOOLEAN,
    iter : IterOrders ]

\* a SettingsLibrary as serde builds it
ControlsLibrary(declared) ==
  [include_prompt |-> IncludePromptOf(declared), settings |-> SettingsMeta.motion.settings]

\* the values the panel's settings may hold
ControlsData ==
  [ speed : {Num(10), Num(25)}, camera : {Str("None"), Str("pan")} ]
    \cup [ speed : {Num(10)} ]

ControlsCalls ==
  [ fn : {"controls"}, out : Outs, key : {"motion", "lens"},
    lib : {None} \cup { Some(ControlsLibrary(d)) : d \in DeclaredPolicies },
    data : {None} \cup { Some(d) : d \in ControlsData }, video_mode : BOOLEAN ]

\* a PresetMetadata as load_preset_library stores it
PresetMeta(declared) ==
  [multiple_selection |-> None, allow_custom |-> None,
   include_prompt |-> IncludePromptOf(declared)]

\* what selected_prompts may return
PromptLists == { <<>>, <<"standing upright">>, <<"standing upright", "waving hello">> }

PresetCalls ==
  [ fn : {"preset_selector"}, out : Outs,
    meta : {None} \cup { Some(PresetMeta(d)) : d \in DeclaredPolicies },
    prompts : PromptLists, video_mode : BOOLEAN ]

\* the file a component names: the include_prompt it declares, and whether
\* it carries a "categories" list of option categories beside its items
ComponentFiles == [declared : DeclaredPolicies, categories : BOOLEAN]

\* load::<OptionsLibrary> of a component's file in Default: the field
\* `categories` has no serde default, a file without it is an Err and
\* registers no library
LoadOptionsLibrary(file) ==
  IF file.categories
  THEN Some([include_prompt |-> IncludePromptOf(file.declared), categories |-> <<>>])
  ELSE None

\* the components of a composite panel: the file each names and what
\* selected_prompts returns for it
ComponentPairs ==
  { << [file |-> f1, prompts |-> p1], [file |-> f2, prompts |-> p2] >> :
      f1 \in ComponentFiles, f2 \in ComponentFiles,
      p1 \in {<<>>, <<"photorealistic">>}, p2 \in {<<>>, <<"smiling">>} }

CompositeCalls ==
  [ fn : {"composite"}, out : Outs, comps : ComponentPairs, video_mode : BOOLEAN ]

\* the composite arm over the libraries Default registered for the components
RECURSIVE CompositeArm(_, _, _)
CompositeArm(out, comps, video_mode) ==
  IF comps = <<>> THEN out
  ELSE CompositeArm(ComponentArm(out, LoadOptionsLibrary(Head(comps).file),
                                 Head(comps).prompts, video_mode),
                    Tail(comps), video_mode)

InitGenerate ==
  /\ PoseIdle /\ FabIdle /\ AppIdle
  /\ call \in OptionsCalls \cup ControlsCalls \cup PresetCalls \cup CompositeCalls
  /\ ret = None

\* generate comes to an options_grid panel
CallOptions ==
  /\ call.fn = "options_grid" /\ ret = None
  /\ ret' = Some(OptionsArm(call.out, call.lib, call.data, call.video_mode, call.iter))
  /\ UNCHANGED <<posevars, fabvars, appvars, call>>

\* generate comes to a controls panel
CallControls ==
  /\ call.fn = "controls" /\ ret = None
  /\ ret' = Some(ControlsArm(call.out, call.key, call.lib, call.data, call.video_mode))
  /\ UNCHANGED <<posevars, fabvars, appvars, call>>

\* generate comes to a preset_selector panel
CallPreset ==
  /\ call.fn = "preset_selector" /\ ret = None
  /\ ret' = Some(PresetArm(call.out, call.meta, call.prompts, call.video_mode))
  /\ UNCHANGED <<posevars, fabvars, appvars, call>>

\* generate comes to a composite panel
CallComposite ==
  /\ call.fn = "composite" /\ ret = None
  /\ ret' = Some(CompositeArm(call.out, call.comps, call.video_mode))
  /\ UNCHANGED <<posevars, fabvars, appvars, call>>

NextGenerate == CallOptions \/ CallControls \/ CallPreset \/ CallComposite

SpecGenerate == InitGenerate /\ [][NextGenerate]_vars

\* ------------------------------------------------------------ the include_prompt gate

\* generate has been through a panel whose library and data it found
PanelGenerated ==
  /\ call.fn \in {"options_grid", "controls", "preset_selector"} /\ ret # None
  /\ call.fn = "preset_selector" => call.meta # None
  /\ call.fn # "preset_selector" => call.lib # None /\ call.data # None

\* the include_prompt of the panel's library
PanelPolicy == IF call.fn = "preset_selector" THEN call.meta[1].include_prompt
               ELSE call.lib[1].include_prompt

\* the mode the policy names is the current one
PolicyNamesMode ==
  \/ PanelPolicy = "always"
  \/ PanelPolicy = "video" /\ call.video_mode
  \/ PanelPolicy = "image" /\ ~call.video_mode

\* the panel holds a value that is neither empty nor "None"
PanelHasText ==
  CASE call.fn = "options_grid" ->
         \E i \in 1..Len(call.lib[1].categories) :
            OptGet(call.data[1], call.lib[1].categories[i].id) \notin {"", "None"}
    [] call.fn = "controls" ->
         \E i \in 1..Len(call.lib[1].settings) :
            /\ call.lib[1].settings[i].id \in DOMAIN call.data[1]
            /\ call.data[1][call.lib[1].settings[i].id] \notin {Str(""), Str("None")}
    [] OTHER -> call.prompts # <<>>

\* C18: an options_grid, controls or preset_selector panel whose library has
\* include_prompt "video" adds text to the prompt only when video_mode is true,
\* one with "image" only when video_mode is false, one with "always" (the
\* default) in both modes; an excluded panel adds nothing at all.
C18_IncludePromptGating ==
  PanelGenerated =>
    /\ ~PolicyNamesMode => ret[1] = call.out
    /\ PolicyNamesMode /\ PanelHasText => ret[1] # call.out

\* a controls panel for video only, holding a camera move, left out of the
\* prompt of an image; the same policy lets it through for a video
C18_VideoPanelLeftOut ==
  /\ PanelGenerated /\ call.fn = "controls" /\ PanelPolicy = "video"
  /\ ~call.video_mode /\ PanelHasText /\ call.out # "" /\ ret[1] = call.out

\* ------------------------------------------------------------ the order of the groups

\* generate has been through an options_grid panel that its policy lets in
GridGenerated ==
  /\ call.fn = "options_grid" /\ ret # None
  /\ call.lib # None /\ call.data # None
  /\ PolicyNamesMode

\* the groups in the order the prompt is to name them: no group, the four
\* fixed names, then the other names of the library in ascending order
GroupsInOrder ==
  << None, Some("Basic Info"), Some("Physical Features"), Some("Facial Features"),
     Some("Body Details"), Some("Accessories"), Some("Wardrobe") >>

\* the values of group g that are neither empty nor "None", in the order the
\* library declares their categories
DeclaredValues(cats, data, g) ==
  [ i \in 1..Len(SelectSeq(cats, LAMBDA c : c.group = g
                                            /\ OptGet(data, c.id) \notin {"", "None"}))
      |-> OptGet(data, SelectSeq(cats, LAMBDA c : c.group = g
                                   /\ OptGet(data, c.id) \notin {"", "None"})[i].id) ]

RECURSIVE ValuesInOrder(_, _, _)
ValuesInOrder(groups, cats, data) ==
  IF groups = <<>> THEN <<>>
  ELSE DeclaredValues(cats, data, Head(groups))
       \o ValuesInOrder(Tail(groups), cats, data)

\* C19: within one options_grid panel the emitted values are those of the
\* categories without a group, then of "Basic Info", "Physical Features",
\* "Facial Features", "Body Details" in that order, then of every remaining
\* group in ascending alphabetical order of its name; inside a group the
\* values keep the library's declared category order; the whole is joined with
\* ", " and followed by a blank line.
C19_OptionGroupOrdering ==
  GridGenerated =>
    (ValuesInOrder(GroupsInOrder, call.lib[1].categories, call.data[1]) # <<>> =>
       ret[1] = call.out
                \o Join(ValuesInOrder(GroupsInOrder, call.lib[1].categories, call.data[1]),
                        ", ")
                \o "\n\n")

\* every category of the panel holds a value, the hash map yields "Wardrobe"
\* before "Accessories", and the prompt names the values group by group
C19_EveryGroupEmitted ==
  /\ GridGenerated /\ call.out = ""
  /\ call.iter = <<Some("Wardrobe"), Some("Accessories")>>
  /\ \A id \in DOMAIN call.data[1] : call.data[1][id] \notin {"", "None"}
  /\ call.data[1].age = "adult"
  /\ ret[1] = "tall, adult, long hair, green eyes, scarred, slim, straw hat, red coat\n\n"

\* ------------------------------------------------------------ what reaches the prompt

\* the categories whose visibility rule the panel's values satisfy
VisibleCategories(cats, data) == SelectSeq(cats, LAMBDA c : ShouldShow(c, data))

\* the "hair" category of the panel
HairCategory == call.lib[1].categories[6]

\* C20: for an options_grid panel, a category whose VisibilityRule is not
\* satisfied by the panel's current option values adds nothing to the prompt,
\* whatever value it still holds, and a category whose value is empty or
\* "None" adds nothing either: the panel's text is that of its visible
\* categories' values that are neither empty nor "None".
C20_VisibleMeaningfulValues ==
  GridGenerated =>
    ret[1] = Emit(call.out,
                  ValuesInOrder(GroupsInOrder,
                                VisibleCategories(call.lib[1].categories, call.data[1]),
                                call.data[1]))

\* the categories whose value is empty or "None" add nothing: the panel's
\* text is that of the values that are neither, hidden or not
ValuesKeptOnly ==
  GridGenerated =>
    ret[1] = Emit(call.out,
                  ValuesInOrder(GroupsInOrder, call.lib[1].categories, call.data[1]))

\* "hair" shows only for an adult, the age is "elderly", and the hair chosen
\* earlier is the only value of the panel: the prompt names it
C20_HiddenValueEmitted ==
  /\ GridGenerated /\ call.out = ""
  /\ HairCategory.visibility # None /\ ~ShouldShow(HairCategory, call.data[1])
  /\ call.data[1].hair = "long hair"
  /\ \A id \in DOMAIN call.data[1] \ {"hair", "age"} : call.data[1][id] \in {"", "None"}
  /\ call.data[1].age = "elderly"
  /\ ret[1] = "elderly, long hair\n\n"

\* ------------------------------------------------------------ the composite gate

\* the include_prompt a component's file declares names the current mode
DeclaredAdmits(file, video_mode) ==
  \/ IncludePromptOf(file.declared) = "always"
  \/ IncludePromptOf(file.declared) = "video" /\ video_mode
  \/ IncludePromptOf(file.declared) = "image" /\ ~video_mode

\* the text after the components whose declared policy names the mode have
\* added their prompts, each on its own
RECURSIVE GatedText(_, _, _)
GatedText(out, comps, video_mode) ==
  IF comps = <<>> THEN out
  ELSE GatedText(IF DeclaredAdmits(Head(comps).file, video_mode)
                    /\ Head(comps).prompts # <<>>
                 THEN out \o Join(Head(comps).prompts, ", ") \o "\n\n"
                 ELSE out,
                 Tail(comps), video_mode)

\* C21: for each sub-component of a composite panel the prompts of its
\* selected items are emitted only if its own library's include_prompt admits
\* the current mode: one whose library declares "video" emits nothing while
\* video_mode is false, one with "image" nothing while it is true,
\* independently of the other sub-components.
C21_CompositeGating ==
  call.fn = "composite" /\ ret # None =>
    ret[1] = GatedText(call.out, call.comps, call.video_mode)

\* a style library for video only, without option categories, has its prompt
\* in the prompt of an image
C21_VideoComponentEmitted ==
  /\ call.fn = "composite" /\ ret # None
  /\ call.out = "" /\ ~call.video_mode
  /\ call.comps[1].file = [declared |-> Some("video"), categories |-> FALSE]
  /\ call.comps[1].prompts = <<"photorealistic">>
  /\ call.comps[2].prompts = <<>>
  /\ ret[1] = "photorealistic\n\n"

\* ------------------------------------------------------------ selecting alone

\* the ids of the pose presets
PoseIds == {"standing", "wave", "portrait"}

\* the selected lists a key may hold: no id twice
SelectedLists ==
  { ids \in UNION { [1..n -> PoseIds] : n \in 0..3 } :
      \A i, j \in 1..Len(ids) : i # j => ids[i] # ids[j] }

\* the multiple_selection a preset library may declare
MultiPolicies == {None, Some("always"), Some("video"), Some("image"), Some("never")}

SelectCalls ==
  [ fn : {"handle_selection"}, selected : SelectedLists, policy : MultiPolicies,
    video_mode : BOOLEAN, id : PoseIds ]

\* the AppState of a call, with the given list under "poses"
SelectState(c, ids) ==
  [DefaultState EXCEPT !.video_mode = c.video_mode, !.selections.poses.selected = ids]

\* the metadata of a call
SelectMeta(c) ==
  Some([multiple_selection |-> c.policy, allow_custom |-> None, include_prompt |-> "always"])

\* the list under "poses" after handle_selection on the given list
Clicked(c, ids) ==
  HandleSelection(SelectState(c, ids), "poses", c.id, PresetItems.poses,
                  SelectMeta(c)).selections.poses.selected

InitSelect ==
  /\ PoseIdle /\ FabIdle /\ AppIdle
  /\ call \in SelectCalls
  /\ ret = <<>>

\* the item is clicked
CallClick ==
  /\ call.fn = "handle_selection" /\ ret = <<>>
  /\ ret' = <<Clicked(call, call.selected)>>
  /\ UNCHANGED <<posevars, fabvars, appvars, call>>

\* the same item is clicked once more
CallClickAgain ==
  /\ call.fn = "handle_selection" /\ Len(ret) = 1
  /\ ret' = <<ret[1], Clicked(call, ret[1])>>
  /\ UNCHANGED <<posevars, fabvars, appvars, call>>

NextSelect == CallClick \/ CallClickAgain

SpecSelect == InitSelect /\ [][NextSelect]_vars

\* ------------------------------------------------------------ what a click selects

\* the policy of the call allows several ids under its video_mode
MultiAllowed ==
  \/ call.policy = Some("always")
  \/ call.policy = Some("video") /\ call.video_mode
  \/ call.policy = Some("image") /\ ~call.video_mode

\* b is a without its i-th element, the others in their order
WithoutAt(a, b, i) ==
  /\ Len(b) = Len(a) - 1
  /\ \A j \in 1..Len(b) : b[j] = a[IF j < i THEN j ELSE j + 1]

\* the id of the call is in the list
Present(ids) == \E i \in 1..Len(ids) : ids[i] = call.id

\* what one click is to do to the list `before`
OneClick(before, after) ==
  /\ ~MultiAllowed => after = <<call.id>>
  /\ MultiAllowed /\ ~Present(before) => after = Append(before, call.id)
  /\ MultiAllowed /\ Present(before) =>
       \E i \in 1..Len(before) : before[i] = call.id /\ WithoutAt(before, after, i)

\* every click done so far did what one click is to do
ClicksToggle ==
  /\ Len(ret) >= 1 => OneClick(call.selected, ret[1])
  /\ Len(ret) = 2 => OneClick(ret[1], ret[2])

\* the id was the last of the list, or not in it
LastOrAbsent ==
  ~Present(call.selected) \/ call.selected[Len(call.selected)] = call.id

\* C22: when multi-selection is not allowed for the key under the current
\* video_mode a click makes selected exactly [id]; when it is allowed a click
\* toggles membership (an absent id is appended at the end, a present id is
\* removed, the others keep their order), so that two clicks on the same item
\* in multi mode restore the original selected list.
C22_SelectionSemantics ==
  call.fn = "handle_selection" =>
    /\ ClicksToggle
    /\ Len(ret) = 2 /\ MultiAllowed => ret[2] = call.selected

\* C22 (amended): a click does as stated; two clicks on the same item in multi
\* mode restore the original list when the id was absent or the last of the
\* list, and otherwise leave the other ids in their order with the id moved
\* to the end.
C22_SelectionSemanticsAmended ==
  call.fn = "handle_selection" =>
    /\ ClicksToggle
    /\ Len(ret) = 2 /\ MultiAllowed /\ LastOrAbsent => ret[2] = call.selected
    /\ Len(ret) = 2 /\ MultiAllowed /\ ~LastOrAbsent =>
         \E i \in 1..Len(call.selected) :
            /\ call.selected[i] = call.id
            /\ ret[2][Len(ret[2])] = call.id
            /\ WithoutAt(call.selected, SubSeq(ret[2], 1, Len(ret[2]) - 1), i)

\* two clicks on the first of two selected ids have moved it to the end
C22_MovedToEnd ==
  /\ call.fn = "handle_selection" /\ MultiAllowed
  /\ call.selected = <<"standing", "wave">> /\ call.id = "standing"
  /\ ret = << <<"wave">>, <<"wave", "standing">> >>

\* ------------------------------------------------------------ saving alone

\* the longest save list of this specification
MaxKept == 3

\* Save, Load and Delete on an application whose video mode is toggled in
\* between, so that the snapshots differ
NextSaves ==
  \/ SaveStateClick \/ SaveType \/ SaveConfirmUpTo(MaxKept)
  \/ LoadStateClick \/ LoadPick \/ DeletePick \/ LoadClose
  \/ VideoModeClick

SpecSaves == Init /\ [][NextSaves]_vars

\* ------------------------------------------------------------ the save list and its file

\* C23: Save appends exactly one entry (name, timestamp, snapshot of the live
\* AppState) at the end of the save list; Delete of index i removes exactly
\* the i-th entry and keeps the order of the others; neither Delete nor Load
\* changes any other entry, Delete does not change the live AppState; and
\* after every Save and every Delete the save file holds the whole list.
C23_SavesInStep ==
  [][ /\ Len(saves') > Len(saves) =>
           /\ event'.kind = "save"
           /\ \E ts \in Timestamps :
                saves' = Append(saves, [name |-> Trim(save_dialog[1]), timestamp |-> ts,
                                        state |-> state])
           /\ save_file' = saves'
      /\ event'.kind = "save" /\ event' # event => Len(saves') = Len(saves) + 1
      /\ Len(saves') < Len(saves) =>
           /\ event'.kind = "delete"
           /\ WithoutAt(saves, saves', event'.idx)
           /\ state' = state
           /\ save_file' = saves'
      /\ event'.kind = "delete" /\ event' # event => Len(saves') = Len(saves) - 1
      /\ Len(saves') = Len(saves) => saves' = saves /\ save_file' = save_file ]_vars

\* the second of three different snapshots has been deleted
C23_MiddleDeleted ==
  /\ event.kind = "delete" /\ event.idx = 2
  /\ Len(saves) = 2 /\ saves[1].state # state /\ saves[2].state = state
  /\ save_file = saves

\* ------------------------------------------------------------ the status line alone

\* the frame times (stable_dt) of this specification, in tenths of a second
FrameTimes == {5, 15}

\* a frame without input
TimedFrame ==
  /\ NoDrag
  /\ \E dt \in FrameTimes :
       FinishFrameDt(state, pose_is_manual, generated_prompt, status_message,
                     status_timer, dt)
  /\ UNCHANGED event
  /\ UNCHANGED <<appframe, saves, save_file, save_dialog, load_dialog, inputs>>

\* a frame in which Reset Pose is clicked: set_status(.., 2.0)
TimedReset ==
  /\ MayAct
  /\ \E dt \in FrameTimes :
       FinishFrameDt(ResetPoseToDefault(state, default_pose), pose_is_manual,
                     generated_prompt, "Reset to default pose", 20, dt)
  /\ event' = Event("reset", "", "", 0, pose_is_manual)
  /\ inputs' = inputs + 1
  /\ UNCHANGED <<appframe, saves, save_file, save_dialog, load_dialog>>

\* a frame in which the prompt is copied: set_status(.., 2.0)
TimedCopy ==
  /\ MayAct
  /\ \E dt \in FrameTimes :
       FinishFrameDt(state, pose_is_manual, generated_prompt, "Copied to clipboard", 20, dt)
  /\ event' = Event("copy", "", "", 0, pose_is_manual)
  /\ inputs' = inputs + 1
  /\ UNCHANGED <<appframe, saves, save_file, save_dialog, load_dialog>>

\* a frame in which the save dialog confirms a name: set_status(.., 3.0)
TimedSave ==
  /\ save_dialog # None /\ Trim(save_dialog[1]) # <<>>
  /\ Len(saves) < MaxKept /\ inputs < MaxInputs
  /\ \E dt \in FrameTimes, ts \in Timestamps :
       /\ saves' = Append(saves, [name |-> Trim(save_dialog[1]), timestamp |-> ts,
                                  state |-> state])
       /\ FinishFrameDt(state, pose_is_manual, generated_prompt,
                        "Saved \"" \o Flat(Trim(save_dialog[1])) \o "\"", 30, dt)
  /\ save_file' = saves'
  /\ save_dialog' = None
  /\ event' = Event("save", "", Flat(Trim(save_dialog[1])), Len(saves) + 1, pose_is_manual)
  /\ inputs' = inputs + 1
  /\ UNCHANGED <<appframe, load_dialog>>

NextStatus ==
  \/ TimedFrame \/ TimedReset \/ TimedCopy
  \/ SaveStateClick \/ SaveType \/ TimedSave

\* a requested repaint brings another frame
SpecStatus == Init /\ [][NextStatus]_vars /\ WF_vars(repaint /\ TimedFrame)

\* ------------------------------------------------------------ the expiry of the status

\* C24: once set_status(msg, d) is called with d > 0 and no further status is
\* set, continued frames with positive frame time bring the timer to <= 0 and
\* clear the message; a repaint is requested in every frame that starts with
\* the timer > 0; and at the end of every frame a non-empty status_message
\* implies status_timer > 0.
C24_StatusExpiry ==
  /\ \A n \in 0..MaxInputs :
       (status_message # "" /\ inputs = n) ~> (status_message = "" \/ inputs > n)
  /\ [][status_timer > 0 => repaint']_vars
  /\ [](status_message # "" => status_timer > 0)

\* the reset message is still on the screen two frames after it was set,
\* and another frame is asked for
C24_MessageStillShown ==
  /\ event.kind = "reset" /\ status_message = "Reset to default pose"
  /\ status_timer = 5 /\ repaint

\* ------------------------------------------------------------ app.rs: timestamp

\* a rule that makes every fourth year a leap year
LeapEveryFourth(y) == y % 4 = 0

\* `y % 4 == 0 && (y % 100 != 0 || y % 400 == 0)`
Leap(y) == y % 4 = 0 /\ (y % 100 # 0 \/ y % 400 = 0)

\* `dy`
YearDays(y) == IF Leap(y) THEN 366 ELSE 365

\* the year loop: [days |-> days left in the year, y |-> the year]
RECURSIVE YearLoop(_, _)
YearLoop(days, y) ==
  IF days < YearDays(y) THEN [days |-> days, y |-> y]
  ELSE YearLoop(days - YearDays(y), y + 1)

\* `mdays`
MDays(y) == <<31, IF Leap(y) THEN 29 ELSE 28, 31, 30, 31, 30, 31, 31, 30, 31, 30, 31>>

\* the month loop over the lengths left: [mo, day]
RECURSIVE MonthLoop(_, _, _)
MonthLoop(mdays, mo, day) ==
  IF mdays = <<>> THEN [mo |-> mo, day |-> day]
  ELSE IF day > Head(mdays) THEN MonthLoop(Tail(mdays), mo + 1, day - Head(mdays))
  ELSE [mo |-> mo, day |-> day]

\* the decimal digits of a number, as characters
RECURSIVE Digits(_)
Digits(n) == IF n < 10 THEN <<ToString(n)>> ELSE Digits(n \div 10) \o <<ToString(n % 10)>>

\* `{n:02}`: at least two characters, zero padded
Pad2(n) == IF Len(Digits(n)) < 2 THEN <<"0">> \o Digits(n) ELSE Digits(n)

\* format!("{y}-{mo:02}-{day:02}  {hour:02}:{min:02}"), as characters
FormatStamp(y, mo, day, hour, min) ==
  Digits(y) \o <<"-">> \o Pad2(mo) \o <<"-">> \o Pad2(day) \o <<" ", " ">>
  \o Pad2(hour) \o <<":">> \o Pad2(min)

\* timestamp() at `days` whole days and `rem` seconds after the epoch
\* (secs = days * 86400 + rem, so secs / 86400 = days, (secs / 3600) % 24 =
\* (rem / 3600) % 24 and (secs / 60) % 60 = (rem / 60) % 60)
Timestamp(days, rem) ==
  FormatStamp(YearLoop(days, 1970).y,
              MonthLoop(MDays(YearLoop(days, 1970).y), 1, YearLoop(days, 1970).days + 1).mo,
              MonthLoop(MDays(YearLoop(days, 1970).y), 1, YearLoop(days, 1970).days + 1).day,
              (rem \div 3600) % 24, (rem \div 60) % 60)

\* ------------------------------------------------------------ the clock alone

\* the days since the epoch at which the clock is read: 1970 to 1974, the
\* turns of 1999/2000 and 2000/2001 with February 2000, the day of writing,
\* 2038, the year 2100 and the year 2400
DayCounts ==
  (0..1500) \cup (10950..11020) \cup (11320..11325) \cup {20760, 24855}
  \cup (47480..47545) \cup (47844..47848) \cup (157110..157115) \cup (157418..157420)

\* the seconds into the day
DaySeconds == {0, 59, 60, 3599, 3600, 43200, 86340, 86399}

TimeCalls == [ fn : {"timestamp"}, days : DayCounts, rem : DaySeconds ]

InitTime ==
  /\ PoseIdle /\ FabIdle /\ AppIdle
  /\ call \in TimeCalls
  /\ ret = None

CallTimestamp ==
  /\ call.fn = "timestamp" /\ ret = None
  /\ ret' = Some(Timestamp(call.days, call.rem))
  /\ UNCHANGED <<posevars, fabvars, appvars, call>>

NextTime == CallTimestamp

SpecTime == InitTime /\ [][NextTime]_vars

\* ------------------------------------------------------------ the civil date

\* the number a run of digit characters spells
RECURSIVE ValueOf(_)
ValueOf(chars) ==
  IF chars = <<>> THEN 0
  ELSE 10 * ValueOf(SubSeq(chars, 1, Len(chars) - 1))
       + (CHOOSE d \in 0..9 : ToString(d) = chars[Len(chars)])

\* the characters of the text are digits where YYYY-MM-DD  HH:MM has them
\* and the separators where it has those
StampShaped(text) ==
  /\ Len(text) = 17
  /\ \A i \in {1, 2, 3, 4, 6, 7, 9, 10, 13, 14, 16, 17} :
       \E d \in 0..9 : text[i] = ToString(d)
  /\ text[5] = "-" /\ text[8] = "-" /\ text[11] = " " /\ text[12] = " " /\ text[15] = ":"

\* the fields the text spells
StampYear(text) == ValueOf(SubSeq(text, 1, 4))
StampMonth(text) == ValueOf(SubSeq(text, 6, 7))
StampDay(text) == ValueOf(SubSeq(text, 9, 10))
StampHour(text) == ValueOf(SubSeq(text, 13, 14))
StampMinute(text) == ValueOf(SubSeq(text, 16, 17))

\* February has 29 days exactly in the years divisible by 4 and not by 100,
\* or divisible by 400
GregorianMonthLength(y, m) ==
  IF m = 2
  THEN (IF (y % 4 = 0 /\ y % 100 # 0) \/ y % 400 = 0 THEN 29 ELSE 28)
  ELSE IF m \in {4, 6, 9, 11} THEN 30 ELSE 31

\* the days from 1970-01-01 to the proleptic Gregorian date y-m-d (the
\* era / year-of-era / day-of-year formula), for y >= 1970
DaysFromCivil(y, m, d) ==
  ((y - (IF m <= 2 THEN 1 ELSE 0)) \div 400) * 146097
  + ((y - (IF m <= 2 THEN 1 ELSE 0)) % 400) * 365
  + ((y - (IF m <= 2 THEN 1 ELSE 0)) % 400) \div 4
  - ((y - (IF m <= 2 THEN 1 ELSE 0)) % 400) \div 100
  + (153 * (m + (IF m > 2 THEN -3 ELSE 9)) + 2) \div 5 + d - 1
  - 719468

Offsets ==
  { <<0, 0, 0>>, <<2, 0, 0>>, <<1000, 0, 0>>, <<0, -500, 0>>, <<0, 3000, 0>>,
    <<300, 400, 0>>, <<0, 0, 2000>>, <<-600, 0, 800>> }

\* the solver's and the importer's helper, on points in ticks of a unit
FixCalls3d ==
  [ fn : {"constrain_distance", "constrain_dist"},
    from : { <<0, 0, 0>>, <<1000, -2000, 500>> }, off : Offsets, len : {1000, 2000} ]

\* the canvas's helper, on points in ticks of a pixel
FixCalls2d ==
  [ fn : {"constrain"}, from : { <<0, 0>>, <<4000, 1500>> },
    off : { <<o[1], o[2]>> : o \in Offsets }, len : {800, 894} ]

InitFix ==
  /\ PoseIdle /\ FabIdle /\ AppIdle
  /\ call \in FixCalls3d \cup FixCalls2d
  /\ ret = None

\* Pose::constrain_distance
CallConstrainDistance ==
  /\ call.fn = "constrain_distance" /\ ret = None
  /\ ret' = Some(ConstrainDistance(call.from, VAdd(call.from, call.off), call.len))
  /\ UNCHANGED <<posevars, fabvars, appvars, call>>

\* the constrain_dist of to_pose
CallConstrainDist ==
  /\ call.fn = "constrain_dist" /\ ret = None
  /\ ret' = Some(ConstrainDist(call.from, VAdd(call.from, call.off), call.len))
  /\ UNCHANGED <<posevars, fabvars, appvars, call>>

\* the constrain of the 2D canvas
CallConstrain ==
  /\ call.fn = "constrain" /\ ret = None
  /\ ret' = Some(Constrain(call.from,
                           <<call.from[1] + call.off[1], call.from[2] + call.off[2]>>,
                           call.len))
  /\ UNCHANGED <<posevars, fabvars, appvars, call>>

NextFix == CallConstrainDistance \/ CallConstrainDist \/ CallConstrain

SpecFix == InitFix /\ [][NextFix]_vars

\* ------------------------------------------------------------ coincident points

\* a distance-fix helper has returned
Fixed == call.fn \in {"constrain_distance", "constrain_dist", "constrain"} /\ ret # None

\* parent and child are nearer than the helper's threshold (one tick)
NearCoincident == \A i \in 1..Len(call.off) : call.off[i] = 0

\* the point directly below the parent: same x (and z), y = parent.y + len
BelowParent ==
  IF Len(call.from) = 3 THEN <<call.from[1], call.from[2] + call.len, call.from[3]>>
  ELSE <<call.from[1], call.from[2] + call.len>>

\* the distance of the result from the parent
FixedDistance ==
  Isqrt((ret[1][1] - call.from[1]) * (ret[1][1] - call.from[1])
        + (ret[1][2] - call.from[2]) * (ret[1][2] - call.from[2])
        + (IF Len(call.from) = 3
           THEN (ret[1][3] - call.from[3]) * (ret[1][3] - call.from[3]) ELSE 0))

\* C26: in every distance-fix helper (the solver's constrain_distance, the
\* pose importer's constrain_dist, the 2D canvas's constrain), when the parent
\* and child points are near-coincident the child is placed directly below the
\* parent (same x and z, y = parent.y + len), so that the result is always at
\* distance len from the parent.
C26_DegenerateDistanceFix ==
  Fixed =>
    /\ NearCoincident => ret[1] = BelowParent
    /\ Abs(FixedDistance - call.len) <= LenTol

\* away from coincidence every helper puts the child at distance len
FixedApart == Fixed /\ ~NearCoincident => Abs(FixedDistance - call.len) <= LenTol

\* the solver's helper has returned a child that lies on its parent
C26_ChildLeftOnParent ==
  /\ Fixed /\ call.fn = "constrain_distance" /\ NearCoincident
  /\ ret[1] = call.from /\ call.len = 2000

\* ------------------------------------------------------------ the 3D canvas alone

\* frames of input in one session with the 3D canvas
MaxDragFrames == 6

\* the 3D view is switched to
Open3d == view_mode = "View2D" /\ ViewClick

Press3d == view_mode = "View3D" /\ DragStartUpTo(MaxDragFrames)

Drag3d == view_mode = "View3D" /\ DragMoveUpTo(MaxDragFrames)

Release3d == view_mode = "View3D" /\ DragStop

NextCanvas3d == Open3d \/ Press3d \/ Drag3d \/ Release3d

SpecCanvas3d == Init /\ [][NextCanvas3d]_vars

\* ------------------------------------------------------------ joint or camera

\* a frame of a drag gesture on the 3D canvas: the one that starts it or a later one
DragFrame3d == view_mode = "View3D" /\ dragged' /\ event'.kind = "drag" /\ inputs' # inputs

\* C27: a drag gesture on the 3D canvas is either a joint drag or a camera
\* rotation for its whole duration.  If the press hit a joint, every drag frame
\* until release changes only the pose and leaves the camera yaw unchanged; if
\* it hit no joint, every drag frame changes only the camera yaw, by 0.008 rad
\* per pixel of horizontal motion, and leaves the pose unchanged.  The drag
\* target is reset to none when the drag stops, so that it is none whenever no
\* drag is in progress.
C27_DragRouting ==
  /\ [][ DragFrame3d =>
           /\ dragged => dragging_joint_3d' = dragging_joint_3d
           /\ dragging_joint_3d' # None => camera_yaw' = camera_yaw
           /\ dragging_joint_3d' = None =>
                /\ state'.pose = state.pose
                /\ camera_yaw' = camera_yaw - 8 * event'.idx
         ]_vars
  /\ [][ dragged /\ ~dragged' => dragging_joint_3d' = None ]_vars
  /\ [](~dragged => dragging_joint_3d = None)

\* a camera rotation in its second frame, the pose as it was
C27_CameraTurnedTwice ==
  /\ view_mode = "View3D" /\ dragged /\ dragging_joint_3d = None
  /\ camera_yaw = DefaultYaw - 8 * 25 - 8 * 25
  /\ state.pose = DefaultPose

\* a joint drag in its second frame, the camera as it was
C27_JointDraggedTwice ==
  /\ view_mode = "View3D" /\ dragged /\ dragging_joint_3d = Some("left_wrist")
  /\ inputs = 3 /\ state.pose # DefaultPose /\ camera_yaw = DefaultYaw

\* ------------------------------------------------------------ the sequence lists

\* every selection state the program holds: the live ones and the saved ones
HeldSelections ==
  { state.selections[k] : k \in DOMAIN state.selections }
  \cup UNION { { saves[i].state.selections[k] : k \in DOMAIN saves[i].state.selections } :
               i \in 1..Len(saves) }

\* C28: in every state reachable from startup by any sequence of UI
\* operations (panel edits, selections, video-mode toggles, Save, Load of saves
\* created in the session, Delete, Reset Pose, sequence-panel remove and
\* clear-all), every SelectionState.sequence is empty; no operation ever
\* appends to a sequence list.
C28_SequencesInert == \A sel \in HeldSelections : sel.sequence = <<>>

\* "Clear All Sequences" has been clicked on a state in which a selection was made
C28_ClearedAfterSelecting ==
  /\ event.kind = "sequence" /\ event.id = "clear"
  /\ state.selections # DefaultSelections

\* ------------------------------------------------------------ how many are selected

\* no id occurs twice in the list
NoRepeat(ids) == \A i, j \in 1..Len(ids) : ids[i] = ids[j] => i = j

\* C29: in every state reachable from startup by any interleaving of preset
\* clicks, chip removals, simple-dropdown choices, Video Mode toggles, Save and
\* Load of saves created in the session, every selection key whose
\* multiple_selection policy does not allow multi-selection under the current
\* video_mode holds at most one selected id, and no selected list ever
\* contains the same id twice.
C29_SelectionCardinality ==
  \A k \in DOMAIN state.selections :
    /\ ~PolicyAllows(k, state.video_mode) => Len(state.selections[k].selected) <= 1
    /\ NoRepeat(state.selections[k].selected)

\* back in image mode, the two poses chosen in video mode are down to the first
C29_PosesClamped ==
  /\ event.kind = "video" /\ event.idx > 0
  /\ ~state.video_mode
  /\ state.selections.poses.selected = <<"standing">>

\* ------------------------------------------------------------ what a limb drag leaves alone

\* the two joints a drag of the named limb joint may write
LimbOf(name) ==
  CASE name \in {"left_elbow", "left_wrist"} -> {"left_elbow", "left_wrist"}
    [] name \in {"right_elbow", "right_wrist"} -> {"right_elbow", "right_wrist"}
    [] name \in {"left_knee", "left_ankle"} -> {"left_knee", "left_ankle"}
    [] name \in {"right_knee", "right_ankle"} -> {"right_knee", "right_ankle"}
    [] OTHER -> {}

LimbJoints ==
  { "left_elbow", "left_wrist", "right_elbow", "right_wrist",
    "left_knee", "left_ankle", "right_knee", "right_ankle" }

\* C30: move_joint_constrained on left_elbow or left_wrist changes no joint
\* other than left_elbow and left_wrist (likewise right_elbow / right_wrist for
\* the right arm), and on left_knee or left_ankle changes no joint other than
\* left_knee and left_ankle (likewise for the right leg); the chain root
\* (shoulder, respectively crotch) keeps exactly its previous position, and a
\* call with an unrecognized joint name changes nothing.
C30_LimbDragFrame ==
  [][ moves' = moves + 1 =>
        /\ lastJoint' \in LimbJoints =>
             \A j \in JointNames \ LimbOf(lastJoint') : pose'[j] = pose[j]
        /\ lastJoint' \notin JointNames => pose' = pose ]_vars

\* a drag of the right ankle has put it where it was asked to be
C30_RightAnkleMoved ==
  /\ lastJoint = "right_ankle" /\ pose.right_ankle = lastTarget
  /\ \A q \in LoadedPoses : pose.right_ankle # q.right_ankle

====
